---- MODULE Spec2Model ----
(***************************************************************************)
(* A state-machine model of the opym OPM/LLSM processing prototypes:       *)
(* the ROI cropper (opym/core.py), the raw-stack de-interlacer and the     *)
(* cudaDeconv wrapper (core.py, cudawrapper.py), the central ROI log       *)
(* (opym/roi_utils.py), the timestamp parser (opym/metadata.py) and the    *)
(* batch submission / queue monitoring loop (opym/batch.py).               *)
(*                                                                         *)
(* Every component has its own variables and its own specification; a      *)
(* specification pins the variables of the other components to their idle  *)
(* values.                                                                 *)
(***************************************************************************)
EXTENDS Integers, Sequences, FiniteSets, TLC

VARIABLES
    pd_args,        \* process_dataset: the arguments and input shape of the call
    pd_ret,         \* process_dataset: outcome (return value / raised error, written output)
    log_file,       \* the central ROI log file on disk
    log_last,       \* the last save_rois_to_log / load_rois_from_log call and its outcome
    ts_in,          \* parse_timestamps: metadata file, AcqSettings interval, num_timepoints
    ts_out,         \* parse_timestamps: outcome
    di_in,          \* load_and_deinterlace: the file and num_channels
    di_out,         \* load_and_deinterlace: outcome
    dc_in,          \* process_channel: channel, stack, PSF, cudaDeconv installation and exit code
    dc_out,         \* process_channel: outcome and the file it saved
    job_pc,         \* run_processing_job: the step it is at
    job_in,         \* run_processing_job: arguments and the files it finds
    job_disk,       \* run_processing_job: the output on disk ("none", "stale", "fresh")
    job_proc_log,   \* run_processing_job: the processing log written to output_log
    job_events,     \* run_processing_job: what it has done so far, in order
    b_pc,           \* run_batch_cropping: the step it is at
    file_list,      \* run_batch_cropping: the files to process
    b_i,            \* run_batch_cropping: index of the submission loop
    b_outcomes,     \* run_batch_cropping: how the submission of each file went, in order
    active_jobs,    \* run_batch_cropping: (filename, crop ticket, deskew ticket) per submitted job
    status_label,   \* run_batch_cropping: status_label.value
    progress_bar,   \* run_batch_cropping: max, value and bar_style of the progress bar
    completed_indices, \* run_batch_cropping: indices of the jobs marked finished
    queue,          \* the ticket files in the queue directory
    b_idx,          \* run_batch_cropping: index of the for loop over active_jobs
    b_interrupted,  \* run_batch_cropping: KeyboardInterrupt was caught
    selector,       \* the ROISelector object: its fields and whether its rectangle selector is active
    sel_event,      \* ROISelector: the last call (a selection with its mouse coordinates, or get_rois)
    get_rois,       \* ROISelector.get_rois: waiting or returned, and the list returned
    al_in,          \* align_rois: the MIP, the two ROIs and what phase_cross_correlation does
    al_out,         \* align_rois: the ROI returned
    pr_in,          \* process_rois_from_selector: the arguments and what phase_cross_correlation does
    pr_out,         \* process_rois_from_selector: the pair returned and whether align_rois was called
    mip_in,         \* create_mip: which copy is called, the file and t_index
    mip_out,        \* create_mip: outcome, the MIP and t_max
    submitter,      \* submit_opm: per invocation, the step it is at, its input directory and its ticket path
    queue_dir,      \* submit_opm: the tickets in QUEUE_DIR, by file name
    clock_ms,       \* submit_opm: int(time.time() * 1000)
    ld_disk,        \* dataloader: the content of each frame file of the directory, or NoFile
    ld_loader,      \* dataloader: which loader ran, its outcome and the file_map of its get_stack
    ld_cache,       \* dataloader: the lru_cache entries of get_stack
    ld_ret          \* dataloader: the last get_stack call, its result and what the file held

pdVars == <<pd_args, pd_ret>>
logVars == <<log_file, log_last>>
tsVars == <<ts_in, ts_out>>
diVars == <<di_in, di_out>>
dcVars == <<dc_in, dc_out>>
jobVars == <<job_pc, job_in, job_disk, job_proc_log, job_events>>
batchVars == <<b_pc, file_list, b_i, b_outcomes, active_jobs, status_label, progress_bar,
               completed_indices, queue, b_idx, b_interrupted>>
selVars == <<selector, sel_event, get_rois>>
roiVars == <<al_in, al_out, pr_in, pr_out>>
mipVars == <<mip_in, mip_out>>
subVars == <<submitter, queue_dir, clock_ms>>
ldVars == <<ld_disk, ld_loader, ld_cache, ld_ret>>

vars == <<pdVars, logVars, tsVars, diVars, dcVars, jobVars, batchVars, selVars,
         roiVars, mipVars, subVars, ldVars>>

\* What the actions of one component leave alone.
notPdVars == <<logVars, tsVars, diVars, dcVars, jobVars, batchVars, selVars, roiVars, mipVars, subVars, ldVars>>
notLogVars == <<pdVars, tsVars, diVars, dcVars, jobVars, batchVars, selVars, roiVars, mipVars, subVars, ldVars>>
notTsVars == <<pdVars, logVars, diVars, dcVars, jobVars, batchVars, selVars, roiVars, mipVars, subVars, ldVars>>
notDiVars == <<pdVars, logVars, tsVars, dcVars, jobVars, batchVars, selVars, roiVars, mipVars, subVars, ldVars>>
notDcVars == <<pdVars, logVars, tsVars, diVars, jobVars, batchVars, selVars, roiVars, mipVars, subVars, ldVars>>
notJobVars == <<tsVars, diVars, dcVars, batchVars, selVars, roiVars, mipVars, subVars, ldVars>>
notBatchVars == <<pdVars, logVars, tsVars, diVars, dcVars, jobVars, selVars, roiVars, mipVars, subVars, ldVars>>
notSelVars == <<pdVars, logVars, tsVars, diVars, dcVars, jobVars, batchVars, roiVars, mipVars, subVars, ldVars>>
notRoiVars == <<pdVars, logVars, tsVars, diVars, dcVars, jobVars, batchVars, selVars, mipVars, subVars, ldVars>>
notMipVars == <<pdVars, logVars, tsVars, diVars, dcVars, jobVars, batchVars, selVars, roiVars, subVars, ldVars>>
notSubVars == <<pdVars, logVars, tsVars, diVars, dcVars, jobVars, batchVars, selVars, roiVars, mipVars, ldVars>>
notLdVars == <<pdVars, logVars, tsVars, diVars, dcVars, jobVars, batchVars, selVars, roiVars, mipVars, subVars>>

----------------------------------------------------------------------------
(* Bounds of the model *)

MaxT == 2          \* timepoints of a 5D input
MaxZ == 2          \* Z slices of an input
MaxC == 4          \* camera channels of an input (1..MaxC, odd ones are rejected)
ImgY == 2          \* rows of an image plane
ImgX == 2          \* columns of an image plane
MaxChans == 2      \* length of a channels_to_output list
MaxLogFiles == 2   \* distinct base file names saved to the ROI log
MaxTimepoints == 3 \* num_timepoints handed to parse_timestamps
MaxFrames == 4     \* frames of an interlaced stack
MaxNumChannels == 3 \* num_channels handed to load_and_deinterlace
MaxVoxel == 1      \* largest voxel value of a stack handed to process_channel
MaxStackLen == 3   \* voxels of a stack handed to process_channel
MaxBatchFiles == 2 \* files of a file_list handed to run_batch_cropping
SelImg == 3        \* height and width of the image shown by ROISelector
MipY == 1          \* rows of the MIP handed to align_rois / process_rois_from_selector
MipX == 2          \* columns of that MIP
MaxRois == 2       \* length of the ROI list handed to process_rois_from_selector
MipT == 2          \* timepoints of a file handed to create_mip
MipZ == 2          \* Z slices of such a file
MipC == 2          \* channels of such a file
MaxSubmitters == 2 \* invocations of submit_opm
MaxClock == 1      \* milliseconds that pass
LdT == 2            \* timepoints of the TIFF series

----------------------------------------------------------------------------
(* Generic helpers *)

Min(a, b) == IF a < b THEN a ELSE b
Max(a, b) == IF a > b THEN a ELSE b

\* A ROI is (slice(y0, y1), slice(x0, x1)) with integer bounds, written
\* <<y0, y1, x0, x1>>; the absent ROI (Python None) is the empty tuple.
NoRoi == <<>>

\* Python's slice.indices for integer bounds on an axis of length n.
SliceBound(v, n) == IF v < 0 THEN Max(v + n, 0) ELSE Min(v, n)
SliceLo(start, n) == SliceBound(start, n)
SliceLen(start, stop, n) == Max(SliceBound(stop, n) - SliceBound(start, n), 0)

\* numpy basic slicing plane[roi[0], roi[1]] of a (Y, X) plane held as a
\* sequence of rows.
Crop(plane, roi, Y, X) ==
    LET h == SliceLen(roi[1], roi[2], Y)
        w == SliceLen(roi[3], roi[4], X)
        y0 == SliceLo(roi[1], Y)
        x0 == SliceLo(roi[3], X)
    IN [i \in 1..h |-> [j \in 1..w |-> plane[y0 + i][x0 + j]]]

\* _get_crop_shape: the shape of dummy_plane[roi] or None.
GetCropShape(roi, Y, X) ==
    IF roi = NoRoi THEN <<>>
    ELSE <<SliceLen(roi[1], roi[2], Y), SliceLen(roi[3], roi[4], X)>>

\* np.rot90(m, k=1): counter-clockwise, (H, W) -> (W, H).
Rot90(m) ==
    IF Len(m) = 0 THEN <<>>
    ELSE LET H == Len(m)
             W == Len(m[1])
         IN [i \in 1..W |-> [j \in 1..H |-> m[j][W + 1 - i]]]

Zeros(h, w) == [i \in 1..h |-> [j \in 1..w |-> 0]]

----------------------------------------------------------------------------
(* process_dataset (opym/core.py) *)

\* The input file: a voxel stack whose voxels are pairwise distinct and
\* non-zero, so that the provenance of every output pixel is decidable.
\* shape is <<T, Z, C, Y, X>> (5D) or <<Z, C, Y, X>> (4D); indices are 0-based.
Voxel(shape5, t, z, c, y, x) ==
    1 + x + shape5[5] * (y + shape5[4] * (c + shape5[3] * (z + shape5[2] * t)))

\* zarr_array[t, z, c] (5D) or zarr_array[z, c] (4D, t = 0).
InputPlane(shape5, t, z, c) ==
    [i \in 1..shape5[4] |-> [j \in 1..shape5[5] |-> Voxel(shape5, t, z, c, i - 1, j - 1)]]

Range(s) == {s[i] : i \in 1..Len(s)}

\* range(n) as a list.
RangeList(n) == [i \in 1..n |-> i - 1]

\* channel_map = {c_out: i for i, c_out in enumerate(channels_to_output)}:
\* a repeated id keeps its last index.
ChannelMapIdx(chans, k) ==
    CHOOSE i \in 1..Len(chans) :
        chans[i] = k /\ \A j \in (i + 1)..Len(chans) : chans[j] # k

\* A ZARR branch that reads camera 0 for Top-C1 (id + 2).
ZarrCropCam0(a, shape5, exc, m, t, z) ==
    LET plane_cam0 == InputPlane(shape5, t, z, exc * 2)
        plane_cam1 == InputPlane(shape5, t, z, exc * 2 + 1)
        crop == CASE m = 0 -> Crop(plane_cam0, a.bottom_roi, shape5[4], shape5[5])
                  [] m = 1 -> Crop(plane_cam0, a.top_roi, shape5[4], shape5[5])
                  [] m = 2 -> Crop(plane_cam0, a.top_roi, shape5[4], shape5[5])
                  [] m = 3 -> Crop(plane_cam1, a.bottom_roi, shape5[4], shape5[5])
    IN IF a.rotate_90 THEN Rot90(crop) ELSE crop

\* ZARR branch, "WRITE OUTPUTS": the crop stored for output id out_base + m of
\* excitation exc: 0 = bot_crop_c0, 1 = top_crop_c0, 2 = top_crop_c1,
\* 3 = bot_crop_c1, each rotated when rotate_90.
ZarrCrop(a, shape5, exc, m, t, z) ==
    LET plane_cam0 == InputPlane(shape5, t, z, exc * 2)
        plane_cam1 == InputPlane(shape5, t, z, exc * 2 + 1)
        crop == CASE m = 0 -> Crop(plane_cam0, a.bottom_roi, shape5[4], shape5[5])
                  [] m = 1 -> Crop(plane_cam0, a.top_roi, shape5[4], shape5[5])
                  [] m = 2 -> Crop(plane_cam1, a.top_roi, shape5[4], shape5[5])
                  [] m = 3 -> Crop(plane_cam1, a.bottom_roi, shape5[4], shape5[5])
    IN IF a.rotate_90 THEN Rot90(crop) ELSE crop

\* TIFF_SERIES branch: the crop stored in stacks_to_write[out_base + m][z].
TiffCrop(a, shape5, exc, m, t, z) ==
    LET plane_cam0 == InputPlane(shape5, t, z, exc * 2)
        plane_cam1 == InputPlane(shape5, t, z, exc * 2 + 1)
        crop == CASE m = 0 -> Crop(plane_cam0, a.bottom_roi, shape5[4], shape5[5])
                  [] m = 1 -> Crop(plane_cam0, a.top_roi, shape5[4], shape5[5])
                  [] m = 2 -> Crop(plane_cam1, a.top_roi, shape5[4], shape5[5])
                  [] m = 3 -> Crop(plane_cam1, a.bottom_roi, shape5[4], shape5[5])
    IN IF a.rotate_90 THEN Rot90(crop) ELSE crop

\* channels_to_output = None (the default) is written <<-1>>.
NoChannels == <<-1>>

\* A shape handling that takes the first axis of a 4D input (Z) for T.
NumTimepointsFirstAxis(shape) == shape[1]

\* "Handle 4D (single timepoint) vs 5D data": T of a supported shape.
NumTimepoints(shape) == IF Len(shape) = 4 THEN 1 ELSE shape[1]

NoOutput == <<>>
Raised(e) == [status |-> "raised", value |-> e, zarr |-> NoOutput, tiffs |-> NoOutput]

ProcessDataset(a) ==
    LET ndim == Len(a.shape)
    IN
    IF ndim \notin {4, 5} THEN Raised("ValueError: unsupported shape")
    ELSE
    LET T == NumTimepoints(a.shape)
        shape5 == IF ndim = 4 THEN <<1>> \o a.shape ELSE a.shape
        Z == shape5[2]
        C == shape5[3]
        Y == shape5[4]
        X == shape5[5]
        n_excitations == C \div 2
        chans == IF a.channels_to_output = NoChannels
                 THEN RangeList(n_excitations * 4)
                 ELSE a.channels_to_output
        need_top == \E i \in 1..Len(chans) : (chans[i] % 4) \in {1, 2}
        need_bottom == \E i \in 1..Len(chans) : (chans[i] % 4) \in {0, 3}
        top_shape == GetCropShape(a.top_roi, Y, X)
        bottom_shape == GetCropShape(a.bottom_roi, Y, X)
        new_shape == IF top_shape # <<>> THEN top_shape
                     ELSE IF bottom_shape # <<>> THEN bottom_shape
                     ELSE <<0, 0>>
        Y_out == IF a.rotate_90 THEN new_shape[2] ELSE new_shape[1]
        X_out == IF a.rotate_90 THEN new_shape[1] ELSE new_shape[2]
        C_new == Len(chans)
        written(k) == k \in Range(chans) /\ k \div 4 < n_excitations
    IN
    IF C % 2 # 0 THEN Raised("ValueError: odd channel count")
    ELSE IF Len(chans) = 0 THEN Raised("ValueError: empty channels_to_output")
    ELSE IF need_top /\ a.top_roi = NoRoi THEN Raised("ValueError: top_roi is None")
    ELSE IF need_bottom /\ a.bottom_roi = NoRoi THEN Raised("ValueError: bottom_roi is None")
    ELSE IF top_shape # <<>> /\ bottom_shape # <<>> /\ top_shape # bottom_shape
         THEN Raised("ValueError: ROI shapes do not match")
    ELSE IF a.output_format = "ZARR" THEN
        [status |-> "returned", value |-> T,
         zarr |-> [t \in 0..(T - 1) |-> [z \in 0..(Z - 1) |-> [idx \in 1..C_new |->
                     IF written(chans[idx]) /\ ChannelMapIdx(chans, chans[idx]) = idx
                     THEN ZarrCrop(a, shape5, chans[idx] \div 4, chans[idx] % 4, t, z)
                     ELSE Zeros(Y_out, X_out)]]],
         tiffs |-> NoOutput]
    ELSE IF a.output_format = "TIFF_SERIES" THEN
        [status |-> "returned", value |-> T,
         zarr |-> NoOutput,
         tiffs |-> [f \in Range(chans) \X (0..(T - 1)) |-> [z \in 0..(Z - 1) |->
                     IF written(f[1])
                     THEN TiffCrop(a, shape5, f[1] \div 4, f[1] % 4, f[2], z)
                     ELSE Zeros(Y_out, X_out)]]]
    ELSE Raised("ValueError: unknown output_format")

\* The calls the model makes.
PDShapes ==
    {<<MaxZ, ImgY, ImgX>>}
    \cup {<<MaxZ, c, ImgY, ImgX>> : c \in 1..MaxC}
    \cup {<<t, MaxZ, c, ImgY, ImgX>> : t \in 1..MaxT, c \in 1..MaxC}

\* Two ROIs of the same shape (the upper and the lower half of the first
\* rows), one of another shape, and the absent ROI.
RoiChoices == {NoRoi, <<0, 1, 0, 2>>, <<1, 2, 0, 2>>, <<0, 2, 1, 2>>}

ChanIds == 0..(4 * (MaxC \div 2) - 1)

SeqsUpTo(S, n) == UNION {[1..k -> S] : k \in 0..n}

ChannelLists == SeqsUpTo(ChanIds, MaxChans) \cup {NoChannels}

OutputFormats == {"ZARR", "TIFF_SERIES"}

PDArgs ==
    [shape : PDShapes, top_roi : RoiChoices, bottom_roi : RoiChoices,
     output_format : OutputFormats, rotate_90 : BOOLEAN,
     channels_to_output : ChannelLists]

NoCall == <<>>
NotCalled == [status |-> "none", value |-> 0, zarr |-> NoOutput, tiffs |-> NoOutput]

CallProcessDataset ==
    /\ pd_ret.status = "none"
    /\ \E a \in PDArgs :
        /\ pd_args' = a
        /\ pd_ret' = ProcessDataset(a)
        /\ UNCHANGED notPdVars

PDNext == CallProcessDataset

----------------------------------------------------------------------------
(* The central ROI log (opym/roi_utils.py) *)

\* _roi_to_tuple: (slice(y1, y2), slice(x1, x2)) -> (y1, y2, x1, x2), None -> None
\* (JSON null).  Every ROI the repository builds has integer bounds, so the
\* defaults for a None bound are not taken.
RoiToTuple(roi) == IF roi = NoRoi THEN NoRoi ELSE <<roi[1], roi[2], roi[3], roi[4]>>

\* _tuple_to_roi: (y1, y2, x1, x2) -> (slice(y1, y2), slice(x1, x2)).
TupleToRoi(tpl) == <<tpl[1], tpl[2], tpl[3], tpl[4]>>

\* The log file is absent, unreadable (open or read fails), corrupt (not valid
\* JSON), valid JSON that is no object, or a JSON object from file names to
\* {"top_roi", "bottom_roi"}.  data holds the entries last written to it, also
\* when they can no longer be parsed.
LogKinds == {"absent", "unreadable", "corrupt", "notdict", "dict"}

EmptyDict == <<>>

AbsentLog == [kind |-> "absent", data |-> EmptyDict]

\* data[key] = value on a dict.
DictPut(d, key, value) ==
    [k \in (DOMAIN d) \cup {key} |-> IF k = key THEN value ELSE d[k]]

\* A save that starts from an empty dict whatever the log holds.
SaveRoisToLogFresh(log, name, top_roi, bottom_roi, write_ok) ==
    LET entry == [top_roi |-> RoiToTuple(top_roi), bottom_roi |-> RoiToTuple(bottom_roi)]
    IN IF log.kind \in {"unreadable", "notdict"}
       THEN [log |-> log, outcome |-> "raised"]
       ELSE IF write_ok
            THEN [log |-> [kind |-> "dict", data |-> DictPut(EmptyDict, name, entry)],
                  outcome |-> "saved"]
            ELSE [log |-> log, outcome |-> "write_failed"]

\* save_rois_to_log.  Reading: only json.JSONDecodeError is caught (data = {});
\* a file that cannot be opened or read raises, and so does the item assignment
\* on valid JSON that is no object.  Writing: mkdir and open("w") are inside
\* try/except Exception, a failure there is printed and leaves the file as it was.
SaveRoisToLog(log, name, top_roi, bottom_roi, write_ok) ==
    LET entry == [top_roi |-> RoiToTuple(top_roi), bottom_roi |-> RoiToTuple(bottom_roi)]
        data == IF log.kind = "dict" THEN log.data ELSE EmptyDict
    IN IF log.kind \in {"unreadable", "notdict"}
       THEN [log |-> log, outcome |-> "raised"]
       ELSE IF write_ok
            THEN [log |-> [kind |-> "dict", data |-> DictPut(data, name, entry)],
                  outcome |-> "saved"]
            ELSE [log |-> log, outcome |-> "write_failed"]

\* save_rois_to_log of opym/utils.py, the older copy: the same, but its
\* _roi_to_tuple takes no None, so a missing ROI raises TypeError after the log
\* was read and before anything is written.
UtilsSaveRoisToLog(log, name, top_roi, bottom_roi, write_ok) ==
    IF log.kind \notin {"unreadable", "notdict"} /\ (top_roi = NoRoi \/ bottom_roi = NoRoi)
    THEN [log |-> log, outcome |-> "raised"]
    ELSE SaveRoisToLog(log, name, top_roi, bottom_roi, write_ok)

\* A load that catches only json.JSONDecodeError, as save_rois_to_log does.
LoadRoisFromLogNarrow(log) ==
    CASE log.kind = "absent" -> [raised |-> FALSE, kind |-> "dict", data |-> EmptyDict]
      [] log.kind = "corrupt" -> [raised |-> FALSE, kind |-> "dict", data |-> EmptyDict]
      [] log.kind = "unreadable" -> [raised |-> TRUE, kind |-> "dict", data |-> EmptyDict]
      [] OTHER -> [raised |-> FALSE, kind |-> log.kind, data |-> log.data]

\* load_rois_from_log: {} when the file does not exist, {} on any Exception
\* while opening, reading or parsing, else the parsed JSON value.
LoadRoisFromLog(log) ==
    CASE log.kind = "absent" -> [raised |-> FALSE, kind |-> "dict", data |-> EmptyDict]
      [] log.kind \in {"unreadable", "corrupt"} ->
            [raised |-> FALSE, kind |-> "dict", data |-> EmptyDict]
      [] OTHER -> [raised |-> FALSE, kind |-> log.kind, data |-> log.data]

LogFileNames == 1..MaxLogFiles

\* ROIs handed to the log: integer-bounded slices or None.
LogTopRois == {NoRoi, <<0, 1, 0, 2>>}
LogBottomRois == {NoRoi, <<1, 2, 0, 2>>}

NoLogOp == [op |-> "none", name |-> 0, top_roi |-> NoRoi, bottom_roi |-> NoRoi,
            outcome |-> "none", result |-> AbsentLog]

\* save_rois_to_log(log_file, base_file, top_roi, bottom_roi); the key is
\* base_file.name.
SaveRois ==
    \E name \in LogFileNames, top \in LogTopRois, bottom \in LogBottomRois, write_ok \in BOOLEAN :
        LET r == SaveRoisToLog(log_file, name, top, bottom, write_ok)
        IN /\ log_file' = r.log
           /\ log_last' = [op |-> "save", name |-> name, top_roi |-> top,
                           bottom_roi |-> bottom, outcome |-> r.outcome,
                           result |-> AbsentLog]
           /\ UNCHANGED notLogVars

\* opym.utils.save_rois_to_log(log_file, base_file, top_roi, bottom_roi).
UtilsSaveRois ==
    \E name \in LogFileNames, top \in LogTopRois, bottom \in LogBottomRois, write_ok \in BOOLEAN :
        LET r == UtilsSaveRoisToLog(log_file, name, top, bottom, write_ok)
        IN /\ log_file' = r.log
           /\ log_last' = [op |-> "save", name |-> name, top_roi |-> top,
                           bottom_roi |-> bottom, outcome |-> r.outcome,
                           result |-> AbsentLog]
           /\ UNCHANGED notLogVars

\* load_rois_from_log(log_file).
LoadRois ==
    LET r == LoadRoisFromLog(log_file)
    IN /\ log_last' = [op |-> "load", name |-> 0, top_roi |-> NoRoi, bottom_roi |-> NoRoi,
                       outcome |-> IF r.raised THEN "raised" ELSE "returned",
                       result |-> [kind |-> r.kind, data |-> r.data]]
       /\ UNCHANGED <<log_file, notLogVars>>

\* Something else than this program changes the file: it is deleted, loses its
\* read permission, is truncated or overwritten with other JSON.
LogTampered ==
    \E k \in {"absent", "unreadable", "corrupt", "notdict"} :
        /\ log_file.kind # k
        /\ k = "unreadable" => log_file.kind = "dict"
        /\ log_file' = [kind |-> k,
                        data |-> IF k \in {"absent", "notdict"} THEN EmptyDict
                                 ELSE log_file.data]
        /\ log_last' = [NoLogOp EXCEPT !.op = "tamper"]
        /\ UNCHANGED notLogVars

\* The permission of an unreadable log is restored.
LogReadable ==
    /\ log_file.kind = "unreadable"
    /\ log_file' = [log_file EXCEPT !.kind = "dict"]
    /\ log_last' = [NoLogOp EXCEPT !.op = "tamper"]
    /\ UNCHANGED notLogVars

LogNext == SaveRois \/ UtilsSaveRois \/ LoadRois \/ LogTampered \/ LogReadable

----------------------------------------------------------------------------
(* parse_timestamps (opym/metadata.py) *)

\* Times are held in milliseconds: a value v of timestamps_sec is written 1000 v.
MsPerSec == 1000
DefaultIntervalSec == 6

\* The entry of "FrameKey-t-0-0" in the metadata: no such key ("missing"), a
\* falsy value ("empty"), an object without "ElapsedTime-ms" ("no_elapsed"), an
\* object whose "ElapsedTime-ms" is the number ms ("elapsed"), or one whose
\* "ElapsedTime-ms" is no number ("bad": ms / 1000.0 raises TypeError).
FrameEntries ==
    {[kind |-> k, ms |-> 0] : k \in {"missing", "empty", "no_elapsed", "bad"}}
    \cup {[kind |-> "elapsed", ms |-> v] : v \in {0, 1500}}

\* The metadata file cannot be opened or is no JSON ("unreadable"), is JSON but
\* no object ("notdict": metadata.get raises) or is an object ("dict").
MetaFiles ==
    {[kind |-> k, frames |-> [t \in 0..(MaxTimepoints - 1) |-> [kind |-> "missing", ms |-> 0]]]
        : k \in {"unreadable", "notdict"}}
    \cup {[kind |-> "dict", frames |-> f] : f \in [0..(MaxTimepoints - 1) -> FrameEntries]}

\* spim_settings.get("timepointInterval", 6.0), in seconds.
BackupInterval(setting) == IF setting.given THEN setting.sec ELSE DefaultIntervalSec

\* The for loop of the try block from timepoint t on: the list so far, or the
\* exception that ends it.
RECURSIVE ParseLoop(_, _, _, _, _)
ParseLoop(frames, n, backup, t, acc) ==
    IF t >= n THEN [ok |-> TRUE, list |-> acc]
    ELSE LET frame_data == frames[t]
         IN IF frame_data.kind = "elapsed"
            THEN ParseLoop(frames, n, backup, t + 1, Append(acc, frame_data.ms))
            ELSE IF frame_data.kind = "bad"
            THEN [ok |-> FALSE, list |-> acc]
            ELSE ParseLoop(frames, n, backup, t + 1, Append(acc, t * backup * MsPerSec))

\* An except branch that keeps what was parsed and fills up the rest.
CalculatedTimesKeep(partial, n, backup) ==
    [i \in 1..n |-> IF i <= Len(partial) THEN partial[i] ELSE (i - 1) * backup * MsPerSec]

\* The except branch: timestamps_sec = [t * backup_interval_sec for t in range(n)].
CalculatedTimes(partial, n, backup) ==
    [i \in 1..n |-> (i - 1) * backup * MsPerSec]

ParseTimestamps(meta, setting, n) ==
    LET backup == BackupInterval(setting)
    IN IF meta.kind # "dict" THEN CalculatedTimes(<<>>, n, backup)
       ELSE LET r == ParseLoop(meta.frames, n, backup, 0, <<>>)
            IN IF r.ok THEN r.list ELSE CalculatedTimes(r.list, n, backup)

IntervalSettings == {[given |-> FALSE, sec |-> 0], [given |-> TRUE, sec |-> 2]}

NoTsCall == [meta |-> [kind |-> "none"], setting |-> [given |-> FALSE, sec |-> 0], n |-> 0]
NoTsRet == [status |-> "none", list |-> <<>>]

CallParseTimestamps ==
    /\ ts_out.status = "none"
    /\ \E meta \in MetaFiles, setting \in IntervalSettings, n \in 0..MaxTimepoints :
        /\ ts_in' = [meta |-> meta, setting |-> setting, n |-> n]
        /\ ts_out' = [status |-> "returned", list |-> ParseTimestamps(meta, setting, n)]
    /\ UNCHANGED notTsVars

TsNext == CallParseTimestamps

----------------------------------------------------------------------------
(* load_and_deinterlace (core.py) *)

\* Python's seq[start::step] for 0 <= start and 1 <= step.
PySlice(seq, start, step) ==
    LET count == IF Len(seq) > start THEN (Len(seq) - start + step - 1) \div step ELSE 0
    IN [j \in 1..count |-> seq[start + (j - 1) * step + 1]]

\* A de-interlacing that starts channel i one frame late.
ChannelFramesLate(stack, i, num_channels) == PySlice(stack, i + 1, num_channels)

\* channel_stacks[i] = interlaced_stack[i::num_channels, :, :].
ChannelFrames(stack, i, num_channels) == PySlice(stack, i, num_channels)

\* load_and_deinterlace: every exception of the try block (the file cannot be
\* loaded, the stack is not 3D) is caught and {} returned.
LoadAndDeinterlace(file, num_channels) ==
    IF ~file.loadable THEN [raised |-> FALSE, channel_stacks |-> <<>>]
    ELSE IF file.ndim # 3 THEN [raised |-> FALSE, channel_stacks |-> <<>>]
    ELSE [raised |-> FALSE,
          channel_stacks |-> [i \in 0..(num_channels - 1) |->
                                ChannelFrames(file.frames, i, num_channels)]]

\* Frames are told apart by their content: a stack is a sequence of distinct
\* frame ids.
FrameStacks ==
    {st \in SeqsUpTo(1..MaxFrames, MaxFrames) :
        \A a, b \in 1..Len(st) : a # b => st[a] # st[b]}

DiFiles == [loadable : BOOLEAN, ndim : {2, 3, 4}, frames : FrameStacks]

NoDiCall == [file |-> [loadable |-> FALSE, ndim |-> 0, frames |-> <<>>], num_channels |-> 0]
NoDiRet == [status |-> "none", channel_stacks |-> <<>>]

CallLoadAndDeinterlace ==
    /\ di_out.status = "none"
    /\ \E file \in DiFiles, n \in 1..MaxNumChannels :
        LET r == LoadAndDeinterlace(file, n)
        IN /\ di_in' = [file |-> file, num_channels |-> n]
           /\ di_out' = [status |-> IF r.raised THEN "raised" ELSE "returned",
                         channel_stacks |-> r.channel_stacks]
    /\ UNCHANGED notDiVars

DiNext == CallLoadAndDeinterlace

----------------------------------------------------------------------------
(* deconvolve_channel / process_channel (core.py, cudawrapper.py) *)

\* A stack with the processing it went through; the numerics of the shear and
\* of the Richardson-Lucy iterations are not modelled.
RawStack(voxels) == [voxels |-> voxels, deskewed |-> FALSE, deconvolved |-> FALSE]

\* deskew_gpu.
DeskewGpu(stack) == [stack EXCEPT !.deskewed = TRUE]

\* cudawrapper.deconvolve: FileNotFoundError without the binary; the binary is
\* run with subprocess.run(args, check=True, ...), which raises
\* CalledProcessError on a non-zero exit code and returns the
\* CompletedProcess otherwise.
CudaDeconvolve(lib_installed, exit_code) ==
    IF ~lib_installed THEN [raised |-> TRUE, error |-> "FileNotFoundError", returncode |-> 0]
    ELSE IF exit_code # 0
         THEN [raised |-> TRUE, error |-> "CalledProcessError", returncode |-> exit_code]
         ELSE [raised |-> FALSE, error |-> "", returncode |-> exit_code]

\* deconvolve_channel: the deskewed stack is returned when result.returncode is
\* not 0, the stack read from decon_path otherwise.
DeconvolveChannel(deskewed_stack, in) ==
    LET result == CudaDeconvolve(in.lib_installed, in.exit_code)
    IN IF result.raised THEN [raised |-> TRUE, error |-> result.error, stack |-> deskewed_stack]
       ELSE IF result.returncode # 0
            THEN [raised |-> FALSE, error |-> "", stack |-> deskewed_stack]
            ELSE [raised |-> FALSE, error |-> "",
                  stack |-> [deskewed_stack EXCEPT !.deconvolved = TRUE]]

\* deconvolved.astype(np.uint16) of non-negative integer voxels.
AsUint16(stack) ==
    [stack EXCEPT !.voxels = [i \in 1..Len(stack.voxels) |-> stack.voxels[i] % 65536]]

NoFile == [channel_id |-> -1, stack |-> RawStack(<<>>)]

\* process_channel: deskew, deconvolve, save <base_name>_ch<id>_processed.tif.
ProcessChannel(in) ==
    LET deskewed == DeskewGpu(RawStack(in.voxels))
        d == DeconvolveChannel(deskewed, in)
    IN IF d.raised THEN [status |-> "raised", error |-> d.error, saved |-> NoFile]
       ELSE [status |-> "returned", error |-> "",
             saved |-> [channel_id |-> in.channel_id, stack |-> AsUint16(d.stack)]]

DcInputs ==
    [channel_id : 0..1, voxels : SeqsUpTo(0..MaxVoxel, MaxStackLen),
     psf : {"none", "missing", "given"}, lib_installed : BOOLEAN, exit_code : 0..2]

NoDcCall == [channel_id |-> -1, voxels |-> <<>>, psf |-> "none", lib_installed |-> FALSE,
             exit_code |-> 0]
NoDcRet == [status |-> "none", error |-> "", saved |-> NoFile]

CallProcessChannel ==
    /\ dc_out.status = "none"
    /\ \E in \in DcInputs :
        /\ dc_in' = in
        /\ dc_out' = ProcessChannel(in)
    /\ UNCHANGED notDcVars

DcNext == CallProcessChannel

----------------------------------------------------------------------------
(* run_processing_job (opym/core.py) *)

\* _format_slice pairs of create_processing_log: ((y1, y2), (x1, x2)) or None.
FormatRoi(roi) == IF roi = NoRoi THEN NoRoi ELSE <<<<roi[1], roi[2]>>, <<roi[3], roi[4]>>>>

NoProcLog == [written |-> FALSE, channels_exported |-> <<>>, rotate_90_degrees |-> FALSE,
              rois |-> <<>>, timestamps_sec |-> <<>>]

\* create_processing_log: the JSON written to paths.output_log.  The
\* AcqSettings.txt of the job holds no timepointInterval.
CreateProcessingLog(in, num_timepoints) ==
    [written |-> TRUE,
     channels_exported |-> in.channels_to_output,
     rotate_90_degrees |-> in.rotate_90,
     rois |-> <<FormatRoi(in.top_roi), FormatRoi(in.bottom_roi)>>,
     timestamps_sec |-> ParseTimestamps(in.meta, [given |-> FALSE, sec |-> 0], num_timepoints)]

\* The first failing check of "Validating inputs", or "ok".
JobValidation(in) ==
    IF in.top_roi = NoRoi /\ in.bottom_roi = NoRoi THEN "ValueError: no ROI"
    ELSE IF Len(in.channels_to_output) = 0 THEN "ValueError: empty channels_to_output"
    ELSE IF ~in.base_exists THEN "FileNotFoundError: input file"
    ELSE IF in.meta.kind = "absent" THEN "FileNotFoundError: metadata file"
    ELSE "ok"

\* A job that goes on to the logs whatever process_dataset did.
JobAfterProcessDatasetAlways(ret) == "create_log"

\* process_dataset is called outside any try: an exception leaves
\* run_processing_job, a return value goes on to create_processing_log.
JobAfterProcessDataset(ret) == IF ret.status = "raised" THEN "raised" ELSE "create_log"

JobShapes ==
    {<<MaxZ, ImgY, ImgX>>, <<MaxZ, 2, ImgY, ImgX>>,
     <<MaxT, MaxZ, 2, ImgY, ImgX>>, <<MaxT, MaxZ, 3, ImgY, ImgX>>}

JobChannelLists == {<<>>, <<0>>, <<1>>, <<2, 3>>}

JobMetaFiles ==
    {[kind |-> k, frames |-> [t \in 0..(MaxTimepoints - 1) |-> [kind |-> "missing", ms |-> 0]]]
        : k \in {"absent", "unreadable"}}
    \cup {[kind |-> "dict",
           frames |-> [t \in 0..(MaxTimepoints - 1) |-> [kind |-> "elapsed", ms |-> 1500 * t]]]}

\* The central log the job finds: none, one it cannot read, one with the entry
\* of another file.
JobCliLogs ==
    {AbsentLog, [kind |-> "unreadable", data |-> EmptyDict],
     [kind |-> "dict",
      data |-> DictPut(EmptyDict, MaxLogFiles,
                       [top_roi |-> RoiToTuple(<<0, 1, 0, 2>>), bottom_roi |-> RoiToTuple(NoRoi)])]}

JobInputs ==
    [base_name : {1}, base_exists : BOOLEAN, shape : JobShapes, meta : JobMetaFiles,
     top_roi : {NoRoi, <<0, 1, 0, 2>>}, bottom_roi : {NoRoi, <<1, 2, 0, 2>>},
     output_format : OutputFormats, rotate_90 : BOOLEAN,
     channels_to_output : JobChannelLists, stale_output : BOOLEAN, cli_log : JobCliLogs]

NoJobCall == [base_name |-> 0]

CallRunProcessingJob ==
    /\ job_pc = "idle"
    /\ \E in \in JobInputs :
        /\ job_in' = in
        /\ job_disk' = IF in.stale_output THEN "stale" ELSE "none"
        /\ log_file' = in.cli_log
    /\ job_pc' = "validate"
    /\ UNCHANGED <<job_proc_log, job_events, pdVars, log_last, notJobVars>>

\* "Validating inputs": the ROI and channel checks, derive_paths, the two
\* exists() checks and the mkdir of the output directory.
JobValidate ==
    /\ job_pc = "validate"
    /\ job_pc' = IF JobValidation(job_in) = "ok" THEN "clean" ELSE "raised"
    /\ job_events' = Append(job_events, IF JobValidation(job_in) = "ok" THEN "validated"
                                        ELSE JobValidation(job_in))
    /\ UNCHANGED <<job_in, job_disk, job_proc_log, pdVars, logVars, notJobVars>>

\* "Cleaning the output directory": rmtree of the old Zarr store, or os.remove
\* of the old <name>_C*_T*.tif files.
JobClean ==
    /\ job_pc = "clean"
    /\ job_disk' = "none"
    /\ job_events' = Append(job_events, "cleaned")
    /\ job_pc' = "process_dataset"
    /\ UNCHANGED <<job_in, job_proc_log, pdVars, logVars, notJobVars>>

\* num_timepoints = process_dataset(...).
JobProcessDataset ==
    /\ job_pc = "process_dataset"
    /\ LET a == [shape |-> job_in.shape, top_roi |-> job_in.top_roi,
                 bottom_roi |-> job_in.bottom_roi, output_format |-> job_in.output_format,
                 rotate_90 |-> job_in.rotate_90,
                 channels_to_output |-> job_in.channels_to_output]
           ret == ProcessDataset(a)
       IN /\ pd_args' = a
          /\ pd_ret' = ret
          /\ job_disk' = IF ret.status = "returned" THEN "fresh" ELSE job_disk
          /\ job_events' = Append(job_events, IF ret.status = "returned"
                                              THEN "process_dataset returned"
                                              ELSE "process_dataset raised")
          /\ job_pc' = JobAfterProcessDataset(ret)
    /\ UNCHANGED <<job_in, job_proc_log, logVars, notJobVars>>

\* create_processing_log(paths, num_timepoints, ...): a failure to write the
\* file is printed and swallowed.
JobCreateLog ==
    /\ job_pc = "create_log"
    /\ \E write_ok \in BOOLEAN :
        /\ job_proc_log' = IF write_ok
                           THEN CreateProcessingLog(job_in,
                                    IF pd_ret.status = "returned" THEN pd_ret.value ELSE 0)
                           ELSE job_proc_log
        /\ job_events' = IF write_ok THEN Append(job_events, "processing_log written")
                         ELSE job_events
    /\ job_pc' = "save_rois"
    /\ UNCHANGED <<job_in, job_disk, pdVars, logVars, notJobVars>>

\* save_rois_to_log(cli_log_file, paths.base_file, top_roi, bottom_roi).
JobSaveRois ==
    /\ job_pc = "save_rois"
    /\ \E write_ok \in BOOLEAN :
        LET r == SaveRoisToLog(log_file, job_in.base_name, job_in.top_roi,
                               job_in.bottom_roi, write_ok)
        IN /\ log_file' = r.log
           /\ log_last' = [op |-> "save", name |-> job_in.base_name,
                           top_roi |-> job_in.top_roi, bottom_roi |-> job_in.bottom_roi,
                           outcome |-> r.outcome, result |-> AbsentLog]
           /\ job_events' = IF r.outcome = "saved" THEN Append(job_events, "roi_log written")
                            ELSE job_events
           /\ job_pc' = IF r.outcome = "raised" THEN "raised" ELSE "done"
    /\ UNCHANGED <<job_in, job_disk, job_proc_log, pdVars, notJobVars>>

JobNext ==
    \/ CallRunProcessingJob
    \/ JobValidate
    \/ JobClean
    \/ JobProcessDataset
    \/ JobCreateLog
    \/ JobSaveRois

----------------------------------------------------------------------------
(* run_batch_cropping (opym/batch.py) *)

\* The files of file_list are 1..n in list order.  The submission of file f
\* returns the ticket paths CropTicket(f) and DeskewTicket(f), files of the
\* queue directory.
CropTicket(f) == 2 * f - 1
DeskewTicket(f) == 2 * f
Tickets == UNION {{CropTicket(f), DeskewTicket(f)} : f \in 1..MaxBatchFiles}

\* status_label.value: a text and the numbers formatted into it.
Status(text, a, b) == [text |-> text, a |-> a, b |-> b]
StatusSubmitting == "Submitting"
StatusNoJobs == "No jobs were successfully submitted."
StatusMonitoring == "Monitoring jobs in Petakit queue..."
StatusSuccess == "All batch jobs processed from queue!"
StatusStopped == "Monitoring stopped by user."

\* The progress bar the caller hands over: full, of another range, no style.
CallerBar == [max |-> MaxBatchFiles + 1, value |-> MaxBatchFiles + 1, bar_style |-> ""]

\* How the try block of one file goes.
SubmitOutcomes == {"ok", "crop_failed", "deskew_failed"}

\* An append placed after the crop submission instead of after both.
ActiveAfterSubmitCropOnly(active, f, outcome) ==
    IF outcome # "crop_failed"
    THEN Append(active, [name |-> f, ct |-> CropTicket(f), dt |-> DeskewTicket(f)])
    ELSE active

\* active_jobs.append(...) is the statement after both submissions; an
\* exception of either skips it.
ActiveAfterSubmit(active, f, outcome) ==
    IF outcome = "ok"
    THEN Append(active, [name |-> f, ct |-> CropTicket(f), dt |-> DeskewTicket(f)])
    ELSE active

\* A while loop that ends with the first finished job.
StillMonitoringUntilFirst(completed, active) == Cardinality(completed) < 1

\* A while loop whose condition never turns false.
StillMonitoringForever(completed, active) == TRUE

\* while len(completed_indices) < len(active_jobs)
StillMonitoring(completed, active) == Cardinality(completed) < Len(active)

CallRunBatchCropping ==
    /\ b_pc = "idle"
    /\ \E n \in 0..MaxBatchFiles : file_list' = [i \in 1..n |-> i]
    /\ b_pc' = "submit"
    /\ UNCHANGED <<b_i, b_outcomes, active_jobs, status_label, progress_bar,
                   completed_indices, queue, b_idx, b_interrupted, notBatchVars>>

\* One iteration of the submission loop.  A crop ticket is written when the
\* crop submission succeeds, a deskew ticket when both do.
BSubmit ==
    /\ b_pc = "submit"
    /\ b_i < Len(file_list)
    /\ \E outcome \in SubmitOutcomes :
        LET f == file_list[b_i + 1]
        IN /\ status_label' = Status(StatusSubmitting, b_i + 1, Len(file_list))
           /\ queue' = queue
                        \cup (IF outcome # "crop_failed" THEN {CropTicket(f)} ELSE {})
                        \cup (IF outcome = "ok" THEN {DeskewTicket(f)} ELSE {})
           /\ active_jobs' = ActiveAfterSubmit(active_jobs, f, outcome)
           /\ b_outcomes' = Append(b_outcomes, outcome)
    /\ b_i' = b_i + 1
    /\ UNCHANGED <<b_pc, file_list, progress_bar, completed_indices, b_idx,
                   b_interrupted, notBatchVars>>

\* After the loop: return when nothing was submitted, else set up monitoring.
BStartMonitoring ==
    /\ b_pc = "submit"
    /\ b_i = Len(file_list)
    /\ IF Len(active_jobs) = 0
       THEN /\ status_label' = Status(StatusNoJobs, 0, 0)
            /\ b_pc' = "done"
            /\ UNCHANGED progress_bar
       ELSE /\ status_label' = Status(StatusMonitoring, Len(active_jobs), 0)
            /\ progress_bar' = [progress_bar EXCEPT !.max = Len(active_jobs), !.value = 0]
            /\ b_pc' = "poll"
    /\ completed_indices' = {}
    /\ b_idx' = 0
    /\ UNCHANGED <<file_list, b_i, b_outcomes, active_jobs, queue, b_interrupted,
                   notBatchVars>>

\* for idx, (name, ct, dt): a finished job is skipped; else the first operand
\* of the or, (base_queue / dt.name).exists().
BPollDeskew ==
    /\ b_pc = "poll"
    /\ b_idx < Len(active_jobs)
    /\ IF b_idx \in completed_indices \/ active_jobs[b_idx + 1].dt \in queue
       THEN /\ b_idx' = b_idx + 1
            /\ UNCHANGED b_pc
       ELSE /\ b_pc' = "poll_crop"
            /\ UNCHANGED b_idx
    /\ UNCHANGED <<file_list, b_i, b_outcomes, active_jobs, status_label, progress_bar,
                   completed_indices, queue, b_interrupted, notBatchVars>>

\* The second operand, (base_queue / ct.name).exists(), and the if not in_queue.
BPollCrop ==
    /\ b_pc = "poll_crop"
    /\ IF active_jobs[b_idx + 1].ct \in queue
       THEN UNCHANGED <<completed_indices, progress_bar>>
       ELSE /\ completed_indices' = completed_indices \cup {b_idx}
            /\ progress_bar' = [progress_bar EXCEPT !.value = @ + 1]
    /\ b_idx' = b_idx + 1
    /\ b_pc' = "poll"
    /\ UNCHANGED <<file_list, b_i, b_outcomes, active_jobs, status_label, queue,
                   b_interrupted, notBatchVars>>

\* End of the for loop: sleep when jobs are left, else leave the while loop.
BPassEnd ==
    /\ b_pc = "poll"
    /\ b_idx = Len(active_jobs)
    /\ b_pc' = IF StillMonitoring(completed_indices, active_jobs) THEN "sleep"
               ELSE "set_status"
    /\ UNCHANGED <<file_list, b_i, b_outcomes, active_jobs, status_label, progress_bar,
                   completed_indices, queue, b_idx, b_interrupted, notBatchVars>>

\* time.sleep(2), then the next pass.
BSleep ==
    /\ b_pc = "sleep"
    /\ b_pc' = "poll"
    /\ b_idx' = 0
    /\ UNCHANGED <<file_list, b_i, b_outcomes, active_jobs, status_label, progress_bar,
                   completed_indices, queue, b_interrupted, notBatchVars>>

BSetStatus ==
    /\ b_pc = "set_status"
    /\ status_label' = Status(StatusSuccess, 0, 0)
    /\ b_pc' = "set_style"
    /\ UNCHANGED <<file_list, b_i, b_outcomes, active_jobs, progress_bar,
                   completed_indices, queue, b_idx, b_interrupted, notBatchVars>>

BSetStyle ==
    /\ b_pc = "set_style"
    /\ progress_bar' = [progress_bar EXCEPT !.bar_style = "success"]
    /\ b_pc' = "done"
    /\ UNCHANGED <<file_list, b_i, b_outcomes, active_jobs, status_label,
                   completed_indices, queue, b_idx, b_interrupted, notBatchVars>>

\* except KeyboardInterrupt: the interrupt arrives anywhere inside the try.
BInterrupt ==
    /\ b_pc \in {"poll", "poll_crop", "sleep", "set_status", "set_style"}
    /\ status_label' = Status(StatusStopped, 0, 0)
    /\ b_interrupted' = TRUE
    /\ b_pc' = "done"
    /\ UNCHANGED <<file_list, b_i, b_outcomes, active_jobs, progress_bar,
                   completed_indices, queue, b_idx, notBatchVars>>

\* The server picks a ticket up: the file leaves the queue directory.
ServerTakesTicket ==
    /\ b_pc # "idle"
    /\ \E t \in queue : queue' = queue \ {t}
    /\ UNCHANGED <<b_pc, file_list, b_i, b_outcomes, active_jobs, status_label,
                   progress_bar, completed_indices, b_idx, b_interrupted, notBatchVars>>

\* A ticket of a name that was in the queue before is written again.
TicketReappears ==
    /\ b_pc # "idle"
    /\ \E j \in 1..Len(active_jobs) : \E t \in {active_jobs[j].ct, active_jobs[j].dt} :
        /\ t \notin queue
        /\ queue' = queue \cup {t}
    /\ UNCHANGED <<b_pc, file_list, b_i, b_outcomes, active_jobs, status_label,
                   progress_bar, completed_indices, b_idx, b_interrupted, notBatchVars>>

BatchNext ==
    \/ CallRunBatchCropping
    \/ BSubmit
    \/ BStartMonitoring
    \/ BPollDeskew
    \/ BPollCrop
    \/ BPassEnd
    \/ BSleep
    \/ BSetStatus
    \/ BSetStyle
    \/ BInterrupt
    \/ ServerTakesTicket
    \/ TicketReappears

----------------------------------------------------------------------------
(* ROISelector (opym/viewer/_selectors.py, opym/viewer.py) *)

\* Mouse coordinates (event.xdata, event.ydata) are floats; the model holds
\* them in half pixels.  The image spans -0.5 .. SelImg - 0.5 on both axes;
\* ydata takes the halves -0.5 .. SelImg / 2, xdata the whole pixels.
HalfCoordsY == (-1)..SelImg
HalfCoordsX == {2 * x : x \in 0..(SelImg - 1)}

\* int(x) of a float given in halves: truncation towards zero.
IntOfHalves(h) == IF h >= 0 THEN h \div 2 ELSE -((-h) \div 2)

\* A press / release pair of the rectangle selector.  minspanx and minspany
\* make the widget drop a drag that does not move on one of the axes.
SelectEvents ==
    {ev \in [cx : HalfCoordsX, cy : HalfCoordsY, rx : HalfCoordsX, ry : HalfCoordsY] :
        ev.cx # ev.rx /\ ev.cy # ev.ry}

NoDims == <<>>

\* The freely drawn box: min / max of the int() of the two corners.
DrawnRoi(ev) ==
    LET x_start_drawn == IntOfHalves(ev.cx)
        y_start_drawn == IntOfHalves(ev.cy)
        x_end_drawn == IntOfHalves(ev.rx)
        y_end_drawn == IntOfHalves(ev.ry)
    IN <<Min(y_start_drawn, y_end_drawn), Max(y_start_drawn, y_end_drawn),
         Min(x_start_drawn, x_end_drawn), Max(x_start_drawn, x_end_drawn)>>

\* A second box that keeps the size the user drew.
SnappedRoiAsDrawn(ev, dims) == DrawnRoi(ev)

\* The second box: centred on the drawn one, with the size of the first.
\* y_center - roi_height / 2 is computed in floats, here in halves.
SnappedRoi(ev, dims) ==
    LET x_start_drawn == IntOfHalves(ev.cx)
        y_start_drawn == IntOfHalves(ev.cy)
        x_end_drawn == IntOfHalves(ev.rx)
        y_end_drawn == IntOfHalves(ev.ry)
        y_center2 == 2 * y_start_drawn + (y_end_drawn - y_start_drawn)
        x_center2 == 2 * x_start_drawn + (x_end_drawn - x_start_drawn)
        y_start == IntOfHalves(y_center2 - dims[1])
        x_start == IntOfHalves(x_center2 - dims[2])
    IN <<y_start, y_start + dims[1], x_start, x_start + dims[2]>>

\* ROISelector.__init__ of viewer/_selectors.py.
NewROISelector(require_top, require_bottom) ==
    LET n == (IF require_top THEN 1 ELSE 0) + (IF require_bottom THEN 1 ELSE 0)
    IN [cls |-> "selectors", require_top |-> require_top, require_bottom |-> require_bottom,
        roi_slices |-> <<>>, first_roi_dims |-> NoDims, expected_count |-> n,
        selector_active |-> n # 0]

\* ROISelector.__init__ of viewer.py: always two ROIs, no require_* flags.
NewViewerROISelector ==
    [cls |-> "viewer", require_top |-> TRUE, require_bottom |-> TRUE,
     roi_slices |-> <<>>, first_roi_dims |-> NoDims, expected_count |-> 2,
     selector_active |-> TRUE]

\* The append and the deactivation that end on_select.
RecordRoi(s, roi, dims) ==
    LET slices == Append(s.roi_slices, roi)
    IN [s EXCEPT !.roi_slices = slices,
                 !.first_roi_dims = dims,
                 !.selector_active = IF Len(slices) = s.expected_count THEN FALSE ELSE @]

\* An on_select without its first check.
OnSelectUnchecked(s, ev) ==
    IF s.require_top /\ Len(s.roi_slices) = 0
    THEN LET roi == DrawnRoi(ev) IN RecordRoi(s, roi, <<roi[2] - roi[1], roi[4] - roi[3]>>)
    ELSE IF s.first_roi_dims # NoDims
         THEN RecordRoi(s, SnappedRoi(ev, s.first_roi_dims), s.first_roi_dims)
         ELSE RecordRoi(s, DrawnRoi(ev), s.first_roi_dims)

\* ROISelector.on_select of viewer/_selectors.py.
OnSelect(s, ev) ==
    IF Len(s.roi_slices) >= s.expected_count THEN s
    ELSE IF s.require_top /\ Len(s.roi_slices) = 0
    THEN LET roi == DrawnRoi(ev) IN RecordRoi(s, roi, <<roi[2] - roi[1], roi[4] - roi[3]>>)
    ELSE IF s.first_roi_dims # NoDims
         THEN RecordRoi(s, SnappedRoi(ev, s.first_roi_dims), s.first_roi_dims)
         ELSE RecordRoi(s, DrawnRoi(ev), s.first_roi_dims)

\* ROISelector.on_select of viewer.py.
ViewerOnSelect(s, ev) ==
    IF Len(s.roi_slices) >= 2 THEN s
    ELSE IF Len(s.roi_slices) = 0
    THEN LET roi == DrawnRoi(ev) IN RecordRoi(s, roi, <<roi[2] - roi[1], roi[4] - roi[3]>>)
    ELSE RecordRoi(s, SnappedRoi(ev, s.first_roi_dims), s.first_roi_dims)

NoSelector == [cls |-> "none", require_top |-> FALSE, require_bottom |-> FALSE,
               roi_slices |-> <<>>, first_roi_dims |-> NoDims, expected_count |-> 0,
               selector_active |-> FALSE]

NoGetRois == [status |-> "none", value |-> <<>>]
\* The last call: its kind, how many ROIs were recorded when it came, and the
\* height and width of the box that was drawn.
NoSelEvent == [kind |-> "none", n_before |-> 0, drawn_dims |-> NoDims]

ConstructROISelector ==
    /\ selector.cls = "none"
    /\ \/ \E rt \in BOOLEAN, rb \in BOOLEAN : selector' = NewROISelector(rt, rb)
       \/ selector' = NewViewerROISelector
    /\ UNCHANGED <<sel_event, get_rois, notSelVars>>

\* The rectangle selector calls on_select; an inactive selector calls nothing,
\* but on_select is a public method and may still be called.
SelectEvent ==
    /\ selector.cls # "none"
    /\ \E ev \in SelectEvents :
        /\ selector' = IF selector.cls = "viewer" THEN ViewerOnSelect(selector, ev)
                       ELSE OnSelect(selector, ev)
        /\ sel_event' = [kind |-> "select", n_before |-> Len(selector.roi_slices),
                         drawn_dims |-> <<DrawnRoi(ev)[2] - DrawnRoi(ev)[1],
                                          DrawnRoi(ev)[4] - DrawnRoi(ev)[3]>>]
    /\ UNCHANGED <<get_rois, notSelVars>>

\* get_rois(): one evaluation of the while condition; plt.pause lets the
\* selection events in between two of them.
GetRois ==
    /\ selector.cls # "none"
    /\ get_rois.status # "returned"
    /\ get_rois' = IF Len(selector.roi_slices) < selector.expected_count
                   THEN [status |-> "waiting", value |-> <<>>]
                   ELSE [status |-> "returned", value |-> selector.roi_slices]
    /\ sel_event' = [NoSelEvent EXCEPT !.kind = "get_rois",
                                     !.n_before = Len(selector.roi_slices)]
    /\ UNCHANGED <<selector, notSelVars>>

SelNext == ConstructROISelector \/ SelectEvent \/ GetRois

----------------------------------------------------------------------------
(* align_rois / process_rois_from_selector (opym/roi_utils.py) *)

\* The 2D MIP handed to both functions: MipY rows of MipX pixels.
MipPixels == {0, 2}
MipImages == [1..MipY -> [1..MipX -> MipPixels]]

\* ROIs handed in by the selector: two one-pixel boxes, a two-pixel box and
\* an empty one.
SelectorRois == {<<0, 1, 0, 1>>, <<0, 1, 1, 2>>, <<0, 1, 0, 2>>, <<0, 1, 0, 0>>}

RECURSIVE SumSeq(_)
SumSeq(s) == IF Len(s) = 0 THEN 0 ELSE s[1] + SumSeq(Tail(s))

\* Sum and size of a cropped plane.
CropSum(crop) == SumSeq([i \in 1..Len(crop) |-> SumSeq(crop[i])])
CropSize(crop) == IF Len(crop) = 0 THEN 0 ELSE Len(crop) * Len(crop[1])

\* A validity test that accepts a mean equal to the threshold.
RoiValidAtLeast(mip, roi, valid_threshold) ==
    LET crop == Crop(mip, roi, MipY, MipX)
    IN /\ CropSize(crop) > 0
       /\ CropSum(crop) >= valid_threshold * CropSize(crop)

\* np.mean(mip_data[roi[0], roi[1]]) > valid_threshold; the mean of an empty
\* crop is nan, and nan > x is False.
RoiValid(mip, roi, valid_threshold) ==
    LET crop == Crop(mip, roi, MipY, MipX)
    IN /\ CropSize(crop) > 0
       /\ CropSum(crop) > valid_threshold * CropSize(crop)

\* int(round(d)) of a shift given in tenths of a pixel: Python rounds halves
\* to the even neighbour.
RoundTenths(d10) ==
    LET q == d10 \div 10
        r == d10 % 10
    IN IF r < 5 THEN q
       ELSE IF r > 5 THEN q + 1
       ELSE IF q % 2 = 0 THEN q ELSE q + 1

\* int(d): truncation towards zero.
TruncTenths(d10) == IF d10 >= 0 THEN d10 \div 10 ELSE -((-d10) \div 10)

\* What phase_cross_correlation(top_crop, bottom_crop_before,
\* upsample_factor=10) does: it raises, or it returns a shift (dy, dx) in
\* tenths of a pixel.
ShiftTenthsY == {-15, 5, 6, 25}
ShiftTenthsX == {-15, 6}
CorrelationOutcomes ==
    {[kind |-> "error", dy |-> 0, dx |-> 0]}
    \cup {[kind |-> "shift", dy |-> dy, dx |-> dx] : dy \in ShiftTenthsY, dx \in ShiftTenthsX}

\* An align_rois that truncates the shift of the stop bounds.
AlignRoisTruncStop(mip, top_roi, bottom_roi, corr) ==
    IF corr.kind = "error" THEN bottom_roi
    ELSE <<bottom_roi[1] - RoundTenths(corr.dy), bottom_roi[2] - TruncTenths(corr.dy),
           bottom_roi[3] - RoundTenths(corr.dx), bottom_roi[4] - TruncTenths(corr.dx)>>

\* align_rois(mip_data, top_roi, bottom_roi): the adjusted bottom ROI, or
\* bottom_roi itself on any exception.
AlignRois(mip, top_roi, bottom_roi, corr) ==
    IF corr.kind = "error" THEN bottom_roi
    ELSE <<bottom_roi[1] - RoundTenths(corr.dy), bottom_roi[2] - RoundTenths(corr.dy),
           bottom_roi[3] - RoundTenths(corr.dx), bottom_roi[4] - RoundTenths(corr.dx)>>

\* process_rois_from_selector: (final_top_roi, final_bottom_roi), and whether
\* align_rois was called.
ProcessRoisFromSelector(mip, unaligned_rois, valid_threshold, require_top, require_bottom, corr) ==
    LET none == [top |-> NoRoi, bottom |-> NoRoi, aligned |-> FALSE]
    IN IF require_top /\ require_bottom
       THEN IF Len(unaligned_rois) # 2 THEN none
            ELSE LET top_valid == RoiValid(mip, unaligned_rois[1], valid_threshold)
                     bot_valid == RoiValid(mip, unaligned_rois[2], valid_threshold)
                 IN IF top_valid /\ bot_valid
                    THEN [top |-> unaligned_rois[1],
                          bottom |-> AlignRois(mip, unaligned_rois[1], unaligned_rois[2], corr),
                          aligned |-> TRUE]
                    ELSE IF top_valid THEN [none EXCEPT !.top = unaligned_rois[1]]
                    ELSE IF bot_valid THEN [none EXCEPT !.bottom = unaligned_rois[2]]
                    ELSE none
       ELSE IF require_top /\ ~require_bottom
       THEN IF Len(unaligned_rois) # 1 THEN none
            ELSE IF RoiValid(mip, unaligned_rois[1], valid_threshold)
                 THEN [none EXCEPT !.top = unaligned_rois[1]]
                 ELSE none
       ELSE IF require_bottom /\ ~require_top
       THEN IF Len(unaligned_rois) # 1 THEN none
            ELSE IF RoiValid(mip, unaligned_rois[1], valid_threshold)
                 THEN [none EXCEPT !.bottom = unaligned_rois[1]]
                 ELSE none
       ELSE none

Thresholds == {0, 1}

NoAlignCall == [mip |-> <<>>, top_roi |-> NoRoi, bottom_roi |-> NoRoi,
                corr |-> [kind |-> "none", dy |-> 0, dx |-> 0]]
NoAlignRet == [status |-> "none", bottom |-> NoRoi]
NoProcCall == [mip |-> <<>>, unaligned_rois |-> <<>>, valid_threshold |-> 0,
               require_top |-> FALSE, require_bottom |-> FALSE,
               corr |-> [kind |-> "none", dy |-> 0, dx |-> 0]]
NoProcRet == [status |-> "none", top |-> NoRoi, bottom |-> NoRoi, aligned |-> FALSE]

CallAlignRois ==
    /\ al_out.status = "none"
    /\ pr_out.status = "none"
    /\ \E mip \in MipImages, top \in SelectorRois, bottom \in SelectorRois,
          corr \in CorrelationOutcomes :
        /\ al_in' = [mip |-> mip, top_roi |-> top, bottom_roi |-> bottom, corr |-> corr]
        /\ al_out' = [status |-> "returned", bottom |-> AlignRois(mip, top, bottom, corr)]
    /\ UNCHANGED <<pr_in, pr_out, notRoiVars>>

CallProcessRoisFromSelector ==
    /\ pr_out.status = "none"
    /\ al_out.status = "none"
    /\ \E mip \in MipImages, rois \in SeqsUpTo(SelectorRois, MaxRois),
          thr \in Thresholds, rt \in BOOLEAN, rb \in BOOLEAN, corr \in CorrelationOutcomes :
        LET r == ProcessRoisFromSelector(mip, rois, thr, rt, rb, corr)
        IN /\ pr_in' = [mip |-> mip, unaligned_rois |-> rois, valid_threshold |-> thr,
                        require_top |-> rt, require_bottom |-> rb, corr |-> corr]
           /\ pr_out' = [status |-> "returned", top |-> r.top, bottom |-> r.bottom,
                         aligned |-> r.aligned]
    /\ UNCHANGED <<al_in, al_out, notRoiVars>>

RoiNext == CallAlignRois \/ CallProcessRoisFromSelector

----------------------------------------------------------------------------
(* create_mip (opym/viewer/_mip.py, opym/viewer.py) *)

\* The files handed to create_mip: a shape of 3, 4 or 5 dimensions and pixel
\* values with their largest one, per timepoint and pixel, on the plane
\* (peak_z, peak_c); or zeros everywhere.
MipShapes ==
    {<<z, MipY, MipX>> : z \in 1..MipZ}
    \cup {<<z, c, MipY, MipX>> : z \in 1..MipZ, c \in 1..MipC}
    \cup {<<t, z, c, MipY, MipX>> : t \in 1..MipT, z \in 1..MipZ, c \in 1..MipC}

MipFiles ==
    {f \in [shape : MipShapes, peak_z : 0..(MipZ - 1), peak_c : 0..(MipC - 1),
            zeros : BOOLEAN] :
        /\ Len(f.shape) >= 4 => (f.peak_z < f.shape[Len(f.shape) - 3]
                                 /\ f.peak_c < f.shape[Len(f.shape) - 2])
        /\ Len(f.shape) < 4 => (f.peak_z = 0 /\ f.peak_c = 0)
        /\ f.zeros => (f.peak_z = 0 /\ f.peak_c = 0)}

\* lazy_data[t, z, c, y, x], all indices from 0.
MipVoxel(f, t, z, c, y, x) ==
    IF f.zeros THEN 0
    ELSE IF z = f.peak_z /\ c = f.peak_c
         THEN 10 + 4 * t + MipX * y + x
         ELSE (t + z + c + y + x) % 3

\* np.asarray(stack_to_project[z, c, :, :]) for the timepoint t.
MipPlane(f, t, z, c) ==
    [i \in 1..MipY |-> [j \in 1..MipX |-> MipVoxel(f, t, z, c, i - 1, j - 1)]]

\* np.maximum(a, b)
PlaneMaximum(a, b) ==
    [i \in 1..Len(a) |-> [j \in 1..Len(a[i]) |-> Max(a[i][j], b[i][j])]]

\* A loop that skips the whole first Z slice and the first channel.
MipLoopPlanesSkipFirsts(Z, C) ==
    [k \in 1..((Z - 1) * (C - 1)) |->
        <<1 + ((k - 1) \div (C - 1)), 1 + ((k - 1) % (C - 1))>>]

\* for z in range(Z): for c in range(C): the (z, c) visited after the
\* continue of (0, 0), in order.
MipLoopPlanes(Z, C) ==
    [k \in 1..(Z * C - 1) |-> <<k \div C, k % C>>]

RECURSIVE MipFold(_, _, _, _)
MipFold(f, t, z_mip, planes) ==
    IF Len(planes) = 0 THEN z_mip
    ELSE MipFold(f, t, PlaneMaximum(z_mip, MipPlane(f, t, planes[1][1], planes[1][2])),
                 Tail(planes))

\* Largest value of a plane.
PlaneMax(p) ==
    LET vals == {p[i][j] : i \in 1..MipY, j \in 1..MipX}
    IN CHOOSE m \in vals : \A v \in vals : m >= v

MipRaised == [status |-> "raised", mip |-> <<>>, t_max |-> -1, default_range |-> FALSE]

\* The projection and the return value, from the timepoint on.
MipProject(f, T, Z, C, t) ==
    LET z_mip == MipFold(f, t, MipPlane(f, t, 0, 0), MipLoopPlanes(Z, C))
    IN [status |-> "returned", mip |-> z_mip, t_max |-> T - 1,
        default_range |-> ~(PlaneMax(z_mip) > 0)]

\* lazy_data[t_index, :, :, :, :] with an integer: a negative index counts
\* from the end, one below -T raises IndexError.
MipSelect(f, T, Z, C, t_index) ==
    IF t_index >= 0 THEN MipProject(f, T, Z, C, t_index)
    ELSE IF t_index + T >= 0 THEN MipProject(f, T, Z, C, t_index + T)
    ELSE MipRaised

\* create_mip of viewer/_mip.py.
CreateMip(f, t_index) ==
    LET ndim == Len(f.shape)
    IN IF ndim = 4
       THEN \* T = 1; stack_to_project = lazy_data
            MipProject(f, 1, f.shape[1], f.shape[2], 0)
       ELSE IF ndim = 5
       THEN LET T == f.shape[1]
                t == IF t_index >= T THEN 0 ELSE t_index
            IN MipSelect(f, T, f.shape[2], f.shape[3], t)
       ELSE MipRaised

\* create_mip of viewer.py: T, Z, C, Y, X = lazy_data.shape raises ValueError
\* unless the shape has five entries.
ViewerCreateMip(f, t_index) ==
    IF Len(f.shape) # 5 THEN MipRaised
    ELSE LET T == f.shape[1]
             t == IF t_index >= T THEN 0 ELSE t_index
         IN MipSelect(f, T, f.shape[2], f.shape[3], t)

MipTIndexes == (-(MipT + 1))..(MipT + 1)

NoMipCall == [module |-> "none", file |-> [shape |-> <<>>], t_index |-> 0]
NoMipRet == [status |-> "none", mip |-> <<>>, t_max |-> -1, default_range |-> FALSE]

CallCreateMip ==
    /\ mip_out.status = "none"
    /\ \E f \in MipFiles, t_index \in MipTIndexes :
        /\ mip_in' = [module |-> "viewer/_mip.py", file |-> f, t_index |-> t_index]
        /\ mip_out' = CreateMip(f, t_index)
    /\ UNCHANGED notMipVars

CallViewerCreateMip ==
    /\ mip_out.status = "none"
    /\ \E f \in MipFiles, t_index \in MipTIndexes :
        /\ mip_in' = [module |-> "viewer.py", file |-> f, t_index |-> t_index]
        /\ mip_out' = ViewerCreateMip(f, t_index)
    /\ UNCHANGED notMipVars

MipNext == CallCreateMip \/ CallViewerCreateMip

----------------------------------------------------------------------------
(* The job submitter (opym/submit_opm.py) *)

Submitters == 1..MaxSubmitters

\* Directory names, as sequences of characters.
SplitDirName == <<"processed_tiff_series_split">>
DirNames == {<<"a">>, <<"a", " ">>}

\* The input directories: a data directory, or the processed_tiff_series_split
\* folder inside one.
InputDirs ==
    {[parent |-> <<"p">>, name |-> n] : n \in DirNames}
    \cup {[parent |-> n, name |-> SplitDirName] : n \in {<<"a">>}}

\* Step 3 of main: the parent's name for a processed_tiff_series_split folder.
BaseName(dir) == IF dir.name = SplitDirName THEN dir.parent ELSE dir.name

\* re.sub(r"[^\w\-_\.]", "_", base_name), character by character.
WordChars == {"a", "p"}
SafeChar(ch) == IF ch \in WordChars \cup {"-", "_", "."} THEN ch ELSE "_"
SafeName(base_name) == [i \in 1..Len(base_name) |-> SafeChar(base_name[i])]

\* f"{safe_name}_{timestamp}.json"
JobFilename(safe_name, timestamp) == [safe_name |-> safe_name, timestamp |-> timestamp]

NoTicketsYet == <<>>
IdleSubmitter == [pc |-> "idle", input_dir |-> [parent |-> <<>>, name |-> <<>>],
                  job_file |-> JobFilename(<<>>, 0)]

\* main() up to job_file = QUEUE_DIR / job_filename: sys.exit(1) when the
\* input directory does not exist, else the ticket name from the base name and
\* int(time.time() * 1000).
SubmitStart(p) ==
    /\ submitter[p].pc = "idle"
    /\ \E dir \in InputDirs, exists \in BOOLEAN :
        submitter' = [submitter EXCEPT ![p] =
            IF exists
            THEN [pc |-> "write", input_dir |-> dir,
                  job_file |-> JobFilename(SafeName(BaseName(dir)), clock_ms)]
            ELSE [IdleSubmitter EXCEPT !.pc = "exit_1"]]
    /\ UNCHANGED <<queue_dir, clock_ms, notSubVars>>

\* with open(job_file, "w") as f: json.dump(payload, f): the file is created,
\* or truncated and written over when it exists; a failure exits with 1.
SubmitWrite(p) ==
    /\ submitter[p].pc = "write"
    /\ \E write_ok \in BOOLEAN :
        IF write_ok
        THEN /\ queue_dir' = DictPut(queue_dir, submitter[p].job_file,
                                     [writer |-> p, dataDir |-> submitter[p].input_dir])
             /\ submitter' = [submitter EXCEPT ![p].pc = "submitted"]
        ELSE /\ submitter' = [submitter EXCEPT ![p] = [IdleSubmitter EXCEPT !.pc = "exit_1"]]
             /\ UNCHANGED queue_dir
    /\ UNCHANGED <<clock_ms, notSubVars>>

\* A millisecond passes.
ClockTick ==
    /\ clock_ms < MaxClock
    /\ clock_ms' = clock_ms + 1
    /\ UNCHANGED <<submitter, queue_dir, notSubVars>>

SubNext ==
    \/ \E p \in Submitters : SubmitStart(p)
    \/ \E p \in Submitters : SubmitWrite(p)
    \/ ClockTick

----------------------------------------------------------------------------
(* The TIFF series loaders (opym/dataloader.py) *)

\* The T and C numbers in the file names; a stack is a uniform volume of one
\* pixel value.
RawTs == 1..LdT
RawCs == {1}
RawKeys == RawTs \X RawCs
FrameContents == {1, 2}
NoFrameFile == -1

\* np.zeros((Z_max + 1, Y, X), dtype=first_stack.dtype)
ZeroStack == 0

\* functools.lru_cache(maxsize=8)
LruMaxSize == 8

MinOf(S) == CHOOSE m \in S : \A n \in S : m <= n

\* The files of the directory that match the pattern.
FilesOnDisk(disk) == {k \in RawKeys : disk[k] # NoFrameFile}

\* file_map[(t_norm, c_norm)] = f, with the indices shifted to start at 0.
BuildFileMap(disk) ==
    LET raw_matches == FilesOnDisk(disk)
        t_min_raw == MinOf({k[1] : k \in raw_matches})
        c_min_raw == MinOf({k[2] : k \in raw_matches})
    IN  [key \in {<<k[1] - t_min_raw, k[2] - c_min_raw>> : k \in raw_matches}
            |-> <<key[1] + t_min_raw, key[2] + c_min_raw>>]

\* The body of get_stack: the placeholder for a key that is not mapped or
\* whose file does not exist, else tifffile.imread(file_path).
ReadStack(file_map, disk, key) ==
    IF key \notin DOMAIN file_map \/ disk[file_map[key]] = NoFrameFile
    THEN ZeroStack
    ELSE disk[file_map[key]]

\* lru_cache bookkeeping: the entries from least to most recently used.
CachedKeys(cache) == {cache[i].key : i \in 1..Len(cache)}
CacheEntry(cache, key) == CHOOSE i \in 1..Len(cache) : cache[i].key = key
CacheWithout(cache, key) == SelectSeq(cache, LAMBDA e : e.key # key)
LruTrim(cache) ==
    SubSeq(cache, IF Len(cache) > LruMaxSize THEN Len(cache) - LruMaxSize + 1 ELSE 1, Len(cache))

\* get_stack(t, c) under lru_cache: a hit returns the stored result and makes
\* the entry the most recent; a miss runs the body, stores the result and
\* drops the least recently used entry beyond maxsize.
GetStackCall(file_map, disk, cache, key) ==
    IF key \in CachedKeys(cache)
    THEN LET e == cache[CacheEntry(cache, key)]
         IN  [value |-> e.value, cache |-> Append(CacheWithout(cache, key), e)]
    ELSE LET v == ReadStack(file_map, disk, key)
         IN  [value |-> v, cache |-> LruTrim(Append(cache, [key |-> key, value |-> v]))]

StackKeys == (0..(LdT - 1)) \X {0}
NoLoader == [status |-> "none", loader |-> "none", file_map |-> <<>>]
NoStackCall == [status |-> "none", key |-> <<>>, value |-> NoFrameFile, on_disk |-> NoFrameFile]

\* load_tiff_series(directory): FileNotFoundError for a directory without
\* matching files, else the file map and a get_stack with an empty cache.
LoadTiffSeries ==
    /\ ld_loader.status = "none"
    /\ ld_loader' = IF FilesOnDisk(ld_disk) = {}
                    THEN [status |-> "FileNotFoundError", loader |-> "load_tiff_series",
                          file_map |-> <<>>]
                    ELSE [status |-> "loaded", loader |-> "load_tiff_series",
                          file_map |-> BuildFileMap(ld_disk)]
    /\ UNCHANGED <<ld_disk, ld_cache, ld_ret, notLdVars>>

\* load_llsm_tiff_series(directory), likewise.
LoadLlsmTiffSeries ==
    /\ ld_loader.status = "none"
    /\ ld_loader' = IF FilesOnDisk(ld_disk) = {}
                    THEN [status |-> "FileNotFoundError", loader |-> "load_llsm_tiff_series",
                          file_map |-> <<>>]
                    ELSE [status |-> "loaded", loader |-> "load_llsm_tiff_series",
                          file_map |-> BuildFileMap(ld_disk)]
    /\ UNCHANGED <<ld_disk, ld_cache, ld_ret, notLdVars>>

\* A call get_stack(t, c) of the returned loader.
GetStack ==
    /\ ld_loader.status = "loaded"
    /\ \E key \in StackKeys :
        LET r == GetStackCall(ld_loader.file_map, ld_disk, ld_cache, key)
        IN  /\ ld_cache' = r.cache
            /\ ld_ret' = [status |-> "returned", key |-> key, value |-> r.value,
                          on_disk |-> ReadStack(ld_loader.file_map, ld_disk, key)]
    /\ UNCHANGED <<ld_disk, ld_loader, notLdVars>>

\* A frame is written to the directory, new or over an existing file.
WriteFrame ==
    /\ \E k \in RawKeys, v \in FrameContents :
        /\ ld_disk[k] # v
        /\ ld_disk' = [ld_disk EXCEPT ![k] = v]
    /\ UNCHANGED <<ld_loader, ld_cache, ld_ret, notLdVars>>

\* A frame is removed from the directory.
RemoveFrame ==
    /\ \E k \in RawKeys :
        /\ ld_disk[k] # NoFrameFile
        /\ ld_disk' = [ld_disk EXCEPT ![k] = NoFrameFile]
    /\ UNCHANGED <<ld_loader, ld_cache, ld_ret, notLdVars>>

LdNext ==
    \/ LoadTiffSeries
    \/ LoadLlsmTiffSeries
    \/ GetStack
    \/ WriteFrame
    \/ RemoveFrame

----------------------------------------------------------------------------
(* Specifications *)

\* Nothing has been called and there is no ROI log on disk.
Init ==
    /\ pd_args = NoCall
    /\ pd_ret = NotCalled
    /\ log_file = AbsentLog
    /\ log_last = NoLogOp
    /\ ts_in = NoTsCall
    /\ ts_out = NoTsRet
    /\ di_in = NoDiCall
    /\ di_out = NoDiRet
    /\ dc_in = NoDcCall
    /\ dc_out = NoDcRet
    /\ job_pc = "idle"
    /\ job_in = NoJobCall
    /\ job_disk = "none"
    /\ job_proc_log = NoProcLog
    /\ job_events = <<>>
    /\ b_pc = "idle"
    /\ file_list = <<>>
    /\ b_i = 0
    /\ b_outcomes = <<>>
    /\ active_jobs = <<>>
    /\ status_label = Status("", 0, 0)
    /\ progress_bar = CallerBar
    /\ completed_indices = {}
    /\ queue = {}
    /\ b_idx = 0
    /\ b_interrupted = FALSE
    /\ selector = NoSelector
    /\ sel_event = NoSelEvent
    /\ get_rois = NoGetRois
    /\ al_in = NoAlignCall
    /\ al_out = NoAlignRet
    /\ pr_in = NoProcCall
    /\ pr_out = NoProcRet
    /\ mip_in = NoMipCall
    /\ mip_out = NoMipRet
    /\ submitter = [p \in Submitters |-> IdleSubmitter]
    /\ queue_dir = NoTicketsYet
    /\ clock_ms = 0
    /\ ld_disk = [k \in RawKeys |-> NoFrameFile]
    /\ ld_loader = NoLoader
    /\ ld_cache = <<>>
    /\ ld_ret = NoStackCall

SpecPD == Init /\ [][PDNext]_vars

SpecLog == Init /\ [][LogNext]_vars

SpecTs == Init /\ [][TsNext]_vars

SpecDi == Init /\ [][DiNext]_vars

SpecDc == Init /\ [][DcNext]_vars

SpecJob == Init /\ [][JobNext]_vars

SpecBatch == Init /\ [][BatchNext]_vars

\* The monitoring loop keeps running: every statement of it that can be
\* executed is executed, and time.sleep returns.
BatchFairness ==
    /\ WF_vars(BPollDeskew)
    /\ WF_vars(BPollCrop)
    /\ WF_vars(BPassEnd)
    /\ WF_vars(BSleep)

SpecBatchLive == Init /\ [][BatchNext]_vars /\ BatchFairness

SpecSel == Init /\ [][SelNext]_vars

SpecRoi == Init /\ [][RoiNext]_vars

SpecMip == Init /\ [][MipNext]_vars

SpecSub == Init /\ [][SubNext]_vars

SpecLd == Init /\ [][LdNext]_vars

----------------------------------------------------------------------------
(* Claims about process_dataset *)

\* The channels a call outputs: channels_to_output, or every id of every
\* excitation when it is None.
RequestedChannels(a) ==
    IF a.channels_to_output = NoChannels
    THEN {k \in ChanIds : k < 4 * (a.shape[Len(a.shape) - 2] \div 2)}
    ELSE Range(a.channels_to_output)

\* What the claim says output id k holds at (t, z): camera 2e for m in {0, 1},
\* camera 2e + 1 for m in {2, 3}; bottom ROI for m in {0, 3}, top ROI for
\* m in {1, 2}; the crop is turned by np.rot90 when rotate_90 is set.
ClaimedPlane(a, k, t, z) ==
    LET e == k \div 4
        m == k % 4
        shape5 == IF Len(a.shape) = 4 THEN <<1>> \o a.shape ELSE a.shape
        cam == IF m \in {0, 1} THEN 2 * e ELSE 2 * e + 1
        roi == IF m \in {0, 3} THEN a.bottom_roi ELSE a.top_roi
        crop == Crop(InputPlane(shape5, t, z, cam), roi, shape5[4], shape5[5])
    IN IF a.rotate_90 THEN Rot90(crop) ELSE crop

\* C1: after a successful process_dataset, for every timepoint t, slice z and
\* requested output id k = 4e + m with e < C/2, the plane written for k is the
\* crop of camera 2e (m = 0, 1) or 2e + 1 (m = 2, 3) cut with the bottom ROI
\* (m = 0, 3) or the top ROI (m = 1, 2), in the ZARR store (at an index of k in
\* channels_to_output) and in the TIFF series (file C<k>_T<t>, slice z).
ChannelMapCorrect ==
    pd_ret.status = "returned" =>
        LET a == pd_args
            C == a.shape[Len(a.shape) - 2]
            Z == a.shape[Len(a.shape) - 3]
        IN \A k \in RequestedChannels(a) :
            (k \div 4 < C \div 2) =>
                \A t \in 0..(pd_ret.value - 1), z \in 0..(Z - 1) :
                    IF a.output_format = "ZARR"
                    THEN \E idx \in 1..Len(pd_ret.zarr[t][z]) :
                            /\ a.channels_to_output # NoChannels => a.channels_to_output[idx] = k
                            /\ a.channels_to_output = NoChannels => idx = k + 1
                            /\ pd_ret.zarr[t][z][idx] = ClaimedPlane(a, k, t, z)
                    ELSE pd_ret.tiffs[<<k, t>>][z] = ClaimedPlane(a, k, t, z)

\* A two-timepoint, four-camera input whose second excitation is output
\* (ids 6 = Top-C1 and 4 = Bot-C0 of excitation 1), rotated, as a TIFF series
\* and as a ZARR store.
ChannelMapWitness ==
    /\ pd_ret.status = "returned"
    /\ pd_ret.value = 2
    /\ pd_args.shape[3] = 4
    /\ pd_args.channels_to_output = <<6, 4>>
    /\ pd_args.rotate_90
    /\ pd_args.output_format = "TIFF_SERIES"
    /\ pd_ret.tiffs[<<6, 1>>][1] # pd_ret.tiffs[<<4, 1>>][1]

\* C3: process_dataset returns T: 1 for a 4D input, the length of the first
\* axis for a 5D input; any other dimensionality raises ValueError.
ReturnsTimepoints ==
    pd_ret.status # "none" =>
        /\ pd_ret.status = "returned" =>
              /\ Len(pd_args.shape) \in {4, 5}
              /\ Len(pd_args.shape) = 4 => pd_ret.value = 1
              /\ Len(pd_args.shape) = 5 => pd_ret.value = pd_args.shape[1]
        /\ Len(pd_args.shape) \notin {4, 5} =>
              /\ pd_ret.status = "raised"
              /\ pd_ret.value = "ValueError: unsupported shape"

\* A 4D input with more than one Z slice has been processed and 1 was returned.
ReturnsTimepointsWitness ==
    /\ pd_ret.status = "returned"
    /\ Len(pd_args.shape) = 4
    /\ pd_args.shape[1] > 1
    /\ pd_ret.value = 1

----------------------------------------------------------------------------
(* Claims about the central ROI log *)

\* The ROI a stored entry stands for when it is read back (opym/cli.py:
\* _tuple_to_roi(data) if data else None).
StoredRoi(tpl) == IF tpl = NoRoi THEN NoRoi ELSE TupleToRoi(tpl)

LoadNeverRaises ==
    log_last.op = "load" =>
        /\ log_last.outcome = "returned"
        /\ log_file.kind \in {"absent", "unreadable", "corrupt"} =>
              /\ log_last.result.kind = "dict"
              /\ DOMAIN log_last.result.data = {}
        /\ log_file.kind \in {"dict", "notdict"} =>
              /\ log_last.result.kind = log_file.kind
              /\ log_last.result.data = log_file.data

\* A log that holds an entry but cannot be read has been loaded.
LoadNeverRaisesWitness ==
    /\ log_last.op = "load"
    /\ log_file.kind = "unreadable"
    /\ DOMAIN log_file.data # {}
    /\ log_last.outcome = "returned"

----------------------------------------------------------------------------
(* Claims about parse_timestamps *)

\* The metadata file cannot be read or parsed: it cannot be opened or is no
\* JSON object, or the value of a frame the loop reaches cannot be converted.
MetaUnparsable(in) ==
    \/ in.meta.kind # "dict"
    \/ \E t \in 0..(in.n - 1) : in.meta.frames[t].kind = "bad"

\* C8: parse_timestamps returns exactly num_timepoints values; entry t is
\* ElapsedTime-ms / 1000 of FrameKey-t-0-0 when the key holds one, t x backup
\* interval when it does not, and t x backup interval for every t when the
\* metadata file cannot be read or parsed (times in milliseconds).
TimestampsComplete ==
    ts_out.status # "none" =>
        LET backup == IF ts_in.setting.given THEN ts_in.setting.sec ELSE 6
        IN /\ ts_out.status = "returned"
           /\ Len(ts_out.list) = ts_in.n
           /\ \A t \in 0..(ts_in.n - 1) :
                IF MetaUnparsable(ts_in) THEN ts_out.list[t + 1] = t * backup * 1000
                ELSE IF ts_in.meta.frames[t].kind = "elapsed"
                     THEN ts_out.list[t + 1] = ts_in.meta.frames[t].ms
                     ELSE ts_out.list[t + 1] = t * backup * 1000

\* The first frame was parsed (1.5 s), the second cannot be converted: the
\* parsed value is discarded and every entry is calculated.
TimestampsWitness ==
    /\ ts_out.status = "returned"
    /\ ts_in.n = 3
    /\ ts_in.meta.kind = "dict"
    /\ ts_in.meta.frames[0] = [kind |-> "elapsed", ms |-> 1500]
    /\ ts_in.meta.frames[1].kind = "bad"
    /\ ts_out.list = <<0, 6000, 12000>>

----------------------------------------------------------------------------
(* Claims about load_and_deinterlace *)

\* C4: load_and_deinterlace never raises; for a loadable 3D stack channel i of
\* 0..num_channels-1 holds exactly the frames i, i+n, i+2n, ... in their order
\* and every input frame is in exactly one channel; otherwise the result is
\* the empty dictionary.
DeinterlaceCorrect ==
    di_out.status # "none" =>
        LET n == di_in.num_channels
            frames == di_in.file.frames
            cs == di_out.channel_stacks
        IN /\ di_out.status = "returned"
           /\ IF di_in.file.loadable /\ di_in.file.ndim = 3
              THEN /\ DOMAIN cs = 0..(n - 1)
                   /\ \A i \in 0..(n - 1) :
                        /\ Len(cs[i]) = Cardinality({p \in 0..(Len(frames) - 1) : p % n = i})
                        /\ \A j \in 1..Len(cs[i]) : cs[i][j] = frames[i + (j - 1) * n + 1]
                   /\ \A p \in 1..Len(frames) :
                        Cardinality({ij \in (0..(n - 1)) \X (1..Len(frames)) :
                                        /\ ij[2] <= Len(cs[ij[1]])
                                        /\ cs[ij[1]][ij[2]] = frames[p]}) = 1
              ELSE DOMAIN cs = {}

\* Three frames were split into two channels of two and one frames.
DeinterlaceWitness ==
    /\ di_out.status = "returned"
    /\ di_in.file.loadable
    /\ di_in.file.ndim = 3
    /\ di_in.num_channels = 2
    /\ di_in.file.frames = <<3, 1, 2>>
    /\ di_out.channel_stacks[0] = <<3, 2>>
    /\ di_out.channel_stacks[1] = <<1>>

----------------------------------------------------------------------------
(* Claims about deconvolve_channel *)

\* C5: when cudaDeconv exits with a non-zero return code, deconvolve_channel
\* returns the deskewed stack unchanged instead of raising, and process_channel
\* saves it for that channel.
DeconFailureFallsBack ==
    (dc_out.status # "none" /\ dc_in.lib_installed /\ dc_in.exit_code # 0) =>
        /\ dc_out.status = "returned"
        /\ dc_out.saved.channel_id = dc_in.channel_id
        /\ dc_out.saved.stack = [voxels |-> dc_in.voxels, deskewed |-> TRUE,
                                 deconvolved |-> FALSE]

----------------------------------------------------------------------------
(* Claims about run_processing_job *)

\* The position of an event in job_events, 0 when it did not happen.
EventPos(e) ==
    IF \E i \in DOMAIN job_events : job_events[i] = e
    THEN CHOOSE i \in DOMAIN job_events : job_events[i] = e
    ELSE 0

\* C2: run_processing_job performs its steps in order.  Old output is deleted
\* only after the validation passed (one ROI at least, channels_to_output not
\* empty, input and metadata file exist); process_dataset is called only after
\* the cleaning; the processing log and the central ROI log are written only
\* after process_dataset returned; when process_dataset raises, the job ends
\* there, no log is written and the central log is what it was.
JobStepsInOrder ==
    job_pc # "idle" =>
        /\ (job_in.stale_output /\ job_disk # "stale") =>
              /\ JobValidation(job_in) = "ok"
              /\ EventPos("validated") > 0
        /\ EventPos("cleaned") > 0 =>
              /\ EventPos("validated") > 0
              /\ EventPos("validated") < EventPos("cleaned")
        /\ pd_ret.status # "none" =>
              /\ EventPos("cleaned") > 0
              /\ EventPos("cleaned") < EventPos("process_dataset returned")
                                        + EventPos("process_dataset raised")
        /\ (job_proc_log.written \/ log_last.op = "save") =>
              /\ pd_ret.status = "returned"
              /\ EventPos("process_dataset returned") > 0
        /\ EventPos("processing_log written") > 0 =>
              EventPos("process_dataset returned") < EventPos("processing_log written")
        /\ EventPos("roi_log written") > 0 =>
              EventPos("process_dataset returned") < EventPos("roi_log written")
        /\ pd_ret.status = "raised" =>
              /\ job_pc = "raised"
              /\ ~job_proc_log.written
              /\ log_last.op # "save"
              /\ log_file = job_in.cli_log
              /\ EventPos("processing_log written") = 0
              /\ EventPos("roi_log written") = 0

\* A job over stale output ran to its end: validated, cleaned, processed,
\* both logs written, in this order.
JobStepsWitness ==
    /\ job_pc = "done"
    /\ job_in.stale_output
    /\ job_disk = "fresh"
    /\ job_proc_log.written
    /\ log_last.outcome = "saved"
    /\ job_events = <<"validated", "cleaned", "process_dataset returned",
                      "processing_log written", "roi_log written">>

----------------------------------------------------------------------------
(* Claims about run_batch_cropping *)

\* The positions of file_list whose submission succeeded, among those tried.
OkPositions == {i \in 1..Len(b_outcomes) : b_outcomes[i] = "ok"}

\* What C9 says of a state.
SubmissionState ==
    b_pc # "idle" =>
        /\ Len(b_outcomes) = b_i
        /\ b_pc # "submit" => b_i = Len(file_list)
        /\ Len(active_jobs) = Cardinality(OkPositions)
        /\ \A j \in 1..Len(active_jobs) :
              \E i \in OkPositions :
                  /\ active_jobs[j].name = file_list[i]
                  /\ Cardinality({k \in OkPositions : k < i}) = j - 1
        /\ (b_pc # "submit" /\ OkPositions = {}) =>
              /\ b_pc = "done"
              /\ status_label = Status(StatusNoJobs, 0, 0)
              /\ progress_bar = CallerBar
              /\ completed_indices = {}
              /\ ~b_interrupted

\* C9: a failed crop or deskew submission does not abort the batch.  Every
\* file of file_list is attempted, a failure leaves the loop running with
\* active_jobs as it was, active_jobs holds exactly the files whose two
\* submissions succeeded, in file_list order, and when there is none the
\* function sets the "No jobs were successfully submitted." status and
\* returns: no poll, progress bar untouched.
SubmissionTolerant ==
    [][/\ SubmissionState'
       /\ (b_pc = "submit" /\ Len(b_outcomes') > Len(b_outcomes)
              /\ b_outcomes'[Len(b_outcomes')] # "ok") =>
              /\ b_pc' = "submit"
              /\ active_jobs' = active_jobs
       /\ Len(active_jobs') = 0 => (progress_bar' = progress_bar /\ b_pc' \in {"submit", "done"})
      ]_vars

\* The first file failed at the deskew submission, the second one was
\* submitted, and the function went on to monitor that one job.
SubmissionTolerantWitness ==
    /\ b_pc = "poll"
    /\ Len(file_list) = 2
    /\ b_outcomes = <<"deskew_failed", "ok">>
    /\ Len(active_jobs) = 1
    /\ active_jobs[1].name = file_list[2]

\* The indices of all submitted jobs.
AllIndices == 0..(Len(active_jobs) - 1)

\* C10: a job is marked finished only in a poll that found its deskew ticket
\* and then its crop ticket absent from the queue directory; the success
\* status and the success bar style are set only when every submitted job is
\* marked finished; after a KeyboardInterrupt the status is the stopped one,
\* never the success one.
MonitoringSound ==
    [][/\ \A idx \in completed_indices' \ completed_indices :
              /\ b_pc = "poll_crop"
              /\ idx = b_idx
              /\ active_jobs[idx + 1].ct \notin queue
       /\ (b_pc' = "poll_crop" /\ b_pc # "poll_crop") =>
              active_jobs[b_idx + 1].dt \notin queue
       /\ status_label'.text = StatusSuccess =>
              (completed_indices' = AllIndices /\ Len(active_jobs) > 0)
       /\ progress_bar'.bar_style = "success" =>
              (completed_indices' = AllIndices /\ Len(active_jobs) > 0)
       /\ b_interrupted' =>
              (status_label'.text = StatusStopped /\ b_pc' = "done")
       /\ (b_interrupted' /\ ~b_interrupted) => progress_bar' = progress_bar
      ]_vars

\* Two jobs were monitored until both were marked finished, and the success
\* status and bar style were set.
MonitoringWitness ==
    /\ b_pc = "done"
    /\ Len(active_jobs) = 2
    /\ completed_indices = {0, 1}
    /\ progress_bar = [max |-> 2, value |-> 2, bar_style |-> "success"]
    /\ status_label.text = StatusSuccess
    /\ ~b_interrupted

----------------------------------------------------------------------------
(* Claims about ROISelector *)

RequiredCount(s) == (IF s.require_top THEN 1 ELSE 0) + (IF s.require_bottom THEN 1 ELSE 0)

\* C11: ROISelector never records more than expected_count ROIs, the number
\* of required ROIs.  A call of on_select after the count is reached leaves
\* roi_slices and first_roi_dims as they are; the rectangle selector is
\* active exactly while fewer ROIs are recorded than expected; get_rois
\* returns only the list of expected_count ROIs, at once and empty when no
\* ROI is required.
SelectorCount ==
    [][selector'.cls # "none" =>
        /\ selector'.expected_count = RequiredCount(selector')
        /\ Len(selector'.roi_slices) <= selector'.expected_count
        /\ (selector.cls # "none" /\ Len(selector.roi_slices) >= selector.expected_count) =>
              /\ selector'.roi_slices = selector.roi_slices
              /\ selector'.first_roi_dims = selector.first_roi_dims
        /\ selector'.selector_active <=>
              Len(selector'.roi_slices) < selector'.expected_count
        /\ get_rois'.status = "returned" =>
              /\ Len(get_rois'.value) = selector'.expected_count
              /\ get_rois'.value = selector'.roi_slices
        /\ (sel_event'.kind = "get_rois" /\ selector'.expected_count = 0) =>
              get_rois' = [status |-> "returned", value |-> <<>>]
      ]_vars

\* Both ROIs are recorded, get_rois returned them, and a selection came after
\* that.
SelectorCountWitness ==
    /\ selector.cls = "selectors"
    /\ selector.expected_count = 2
    /\ Len(selector.roi_slices) = 2
    /\ ~selector.selector_active
    /\ get_rois.status = "returned"
    /\ sel_event.kind = "select"
    /\ sel_event.n_before = 2

RoiHeight(roi) == roi[2] - roi[1]
RoiWidth(roi) == roi[4] - roi[3]

\* C12: when a top and a bottom ROI are required, the second ROI recorded has
\* the height and the width (stop - start) of the first one.
SecondMatchesFirst ==
    (selector.require_top /\ selector.require_bottom /\ Len(selector.roi_slices) = 2) =>
        /\ RoiHeight(selector.roi_slices[2]) = RoiHeight(selector.roi_slices[1])
        /\ RoiWidth(selector.roi_slices[2]) = RoiWidth(selector.roi_slices[1])

\* The second rectangle was drawn with another height and another width than
\* the first.
SecondMatchesFirstWitness ==
    /\ selector.require_top
    /\ selector.require_bottom
    /\ Len(selector.roi_slices) = 2
    /\ sel_event.kind = "select"
    /\ sel_event.n_before = 1
    /\ sel_event.drawn_dims[1] # RoiHeight(selector.roi_slices[1])
    /\ sel_event.drawn_dims[2] # RoiWidth(selector.roi_slices[1])
    /\ RoiHeight(selector.roi_slices[1]) > 0

----------------------------------------------------------------------------
(* Claims about process_rois_from_selector and align_rois *)

\* C13: process_rois_from_selector returns (None, None) when the number of
\* ROIs supplied is not the number required; otherwise a ROI is returned only
\* when it was required and the mean of the supplied ROI in the MIP exceeds
\* valid_threshold, the top ROI comes back as supplied, and align_rois is
\* applied to the bottom ROI exactly when both are required and both valid.
ProcessRoisCorrect ==
    pr_out.status = "returned" =>
        LET in == pr_in
            n == RequiredCount(in)
            top_in == in.unaligned_rois[1]
            bot_in == in.unaligned_rois[n]
            Exceeds(roi) ==
                LET crop == Crop(in.mip, roi, MipY, MipX)
                IN CropSize(crop) > 0 /\ CropSum(crop) > in.valid_threshold * CropSize(crop)
        IN IF Len(in.unaligned_rois) # n \/ n = 0
           THEN pr_out.top = NoRoi /\ pr_out.bottom = NoRoi /\ ~pr_out.aligned
           ELSE /\ pr_out.top # NoRoi <=> (in.require_top /\ Exceeds(top_in))
                /\ pr_out.top # NoRoi => pr_out.top = top_in
                /\ pr_out.bottom # NoRoi <=> (in.require_bottom /\ Exceeds(bot_in))
                /\ pr_out.aligned <=>
                      (n = 2 /\ Exceeds(top_in) /\ Exceeds(bot_in))
                /\ pr_out.bottom # NoRoi =>
                      pr_out.bottom = IF pr_out.aligned
                                      THEN AlignRois(in.mip, top_in, bot_in, in.corr)
                                      ELSE bot_in

\* Both ROIs were required, supplied and valid, and the bottom one came back
\* shifted.
ProcessRoisWitness ==
    /\ pr_out.status = "returned"
    /\ pr_in.require_top
    /\ pr_in.require_bottom
    /\ Len(pr_in.unaligned_rois) = 2
    /\ pr_in.valid_threshold = 1
    /\ pr_out.aligned
    /\ pr_out.top = pr_in.unaligned_rois[1]
    /\ pr_out.bottom # pr_in.unaligned_rois[2]

\* C14: align_rois returns a bottom ROI of the height and width of the one it
\* was given: shifted by minus the rounded shift on success, the original
\* one on an error.  The top ROI stays what it was.
AlignKeepsSize ==
    [][al_out'.status = "returned" =>
        LET b == al_in'.bottom_roi
            r == al_out'.bottom
            c == al_in'.corr
        IN /\ RoiHeight(r) = RoiHeight(b)
           /\ RoiWidth(r) = RoiWidth(b)
           /\ c.kind = "error" => r = b
           /\ c.kind = "shift" =>
                 /\ b[1] - r[1] = RoundTenths(c.dy)
                 /\ b[2] - r[2] = RoundTenths(c.dy)
                 /\ b[3] - r[3] = RoundTenths(c.dx)
                 /\ b[4] - r[4] = RoundTenths(c.dx)
           /\ al_out.status = "returned" => al_in'.top_roi = al_in.top_roi
      ]_vars

\* A shift of -1.5 rows and 0.6 columns moved the bottom ROI 2 rows down and
\* 1 column left.
AlignKeepsSizeWitness ==
    /\ al_out.status = "returned"
    /\ al_in.corr = [kind |-> "shift", dy |-> -15, dx |-> 6]
    /\ al_in.bottom_roi = <<0, 1, 1, 2>>
    /\ al_out.bottom = <<2, 3, 0, 1>>

----------------------------------------------------------------------------
(* Claims about create_mip *)

\* The timepoint create_mip projects for a t_index of 0 or more.
ClaimedTimepoint(T, t_index) == IF t_index >= T THEN 0 ELSE t_index

----------------------------------------------------------------------------
(* Claims about the termination of the monitoring loop *)

\* Indices a job of the batch can have.
BatchIndices == 0..(MaxBatchFiles - 1)

\* The submission phase is over and job idx, if there is one, is marked
\* finished: a poll found both its tickets absent.
MarkedFinished(idx) ==
    /\ b_pc \notin {"idle", "submit"}
    /\ idx < Len(active_jobs) => idx \in completed_indices

\* The while loop is left with every job marked finished.
LoopLeft ==
    /\ b_pc \in {"set_status", "set_style", "done"}
    /\ completed_indices = AllIndices

\* C16: when every job is at some poll found with both tickets absent, and no
\* KeyboardInterrupt arrives, the monitoring loop ends with every job marked
\* finished.  A job marked finished stays marked and its tickets are not
\* looked up again, also when a ticket of that name is back in the queue.
MonitoringTerminates ==
    /\ ((\A idx \in BatchIndices : <>MarkedFinished(idx)) /\ []~b_interrupted) => <>LoopLeft
    /\ [][/\ b_pc \notin {"idle", "submit"} => completed_indices \subseteq completed_indices'
          /\ b_pc' = "poll_crop" => b_idx' \notin completed_indices'
          /\ (b_pc = "poll" /\ b_idx \in completed_indices /\ b_idx' # b_idx) =>
                (b_pc' = "poll" /\ b_idx' = b_idx + 1)
         ]_vars

\* Both jobs are marked finished and the loop is over, with the deskew ticket
\* of the first job back in the queue.
MonitoringTerminatesWitness ==
    /\ b_pc = "done"
    /\ ~b_interrupted
    /\ Len(active_jobs) = 2
    /\ completed_indices = {0, 1}
    /\ active_jobs[1].dt \in queue
    /\ status_label.text = StatusSuccess

----------------------------------------------------------------------------
(* Claims about the job submitter *)

\* The invocations that printed "Job submitted".
Submitted == {p \in Submitters : submitter[p].pc = "submitted"}

\* C17: every submission adds a ticket of its own to the queue directory and
\* overwrites none: the queue holds one ticket per submission made, each with
\* the payload of the invocation that wrote it.
TicketsDistinct ==
    /\ Cardinality(DOMAIN queue_dir) = Cardinality(Submitted)
    /\ \A p \in Submitted :
          /\ submitter[p].job_file \in DOMAIN queue_dir
          /\ queue_dir[submitter[p].job_file].writer = p

----------------------------------------------------------------------------
(* Claims about the TIFF series loaders *)

\* C18: get_stack(t, c) returns what the directory holds at the time of the
\* call: the current content of the file mapped to (t, c), and the frame, not
\* the zero placeholder, once a file that was missing is present.
GetStackReflectsDisk ==
    (ld_ret.status = "returned" /\ ld_ret.key \in DOMAIN ld_loader.file_map)
        => /\ ld_ret.value = ld_ret.on_disk
           /\ (ld_ret.on_disk \in FrameContents => ld_ret.value # ZeroStack)

====
